---------------------------- MODULE Spec2Model ----------------------------
(***************************************************************************)
(* A model of the site-operations dashboard (simple-supabase-glance).      *)
(*                                                                         *)
(* The module holds these state machines over one set of variables:        *)
(*   SpecScan   the client-side stock-summary scan of Inventory.tsx        *)
(*              applied to arbitrary responses (SpecScanJoin: to rows with *)
(*              arbitrary joined items);                                   *)
(*   SpecStock  the siteStockSummary query of Inventory.tsx against the    *)
(*              inventory_transactions table (rpc, fallback select, scan); *)
(*   SpecFilter the search filters of the list pages;                      *)
(*   SpecAuth   the sign-in view (Auth.tsx) behind the gate of App.tsx;    *)
(*   SpecMut    the mutations of the Inventory and Material Requests pages;*)
(*   SpecFetch  a list query under the QueryClient's default options;      *)
(*   SpecPages  the statements every page sends and the query cache;       *)
(*   SpecConc   two clients updating rows of one table;                    *)
(*   SpecImage  getImageUrl of the three pages that define it;             *)
(*   SpecDate   formatDateTime of the Activities page;                     *)
(*   SpecSwitch the per-site queries of Inventory.tsx while sites change;  *)
(*   SpecDelete the delete buttons of the seven list pages;                *)
(*   SpecZoom   the image dialog of the Activities page.                   *)
(* SpecAuthLive is SpecAuth under the fairness of its requests.            *)
(* A specification leaves the variables of the other machines unchanged.   *)
(***************************************************************************)
EXTENDS Integers, Sequences, FiniteSets, TLC

VARIABLES
    \* ---- stock-summary scan (Inventory.tsx, queryFn of siteStockSummary)
    transactions,      \* the fallback select's response: [null, rows]
    otherResponse,     \* the response of a fetch for another query key: no row or one
    stockMap,          \* the Map of the last scan, entries in insertion order
    scanResult,        \* what the last run of the scan returned: [status, data]
    scanned,           \* which response the last run was given
    firstSummary,      \* history: what the first run on `transactions` returned
    runs,              \* history: runs on `transactions` so far, counted to two
    \* ---- Inventory page against the store (Inventory.tsx)
    inventory_transactions, \* the table: a set of rows
    selectedSite,      \* useState("") of line 22
    summaryQuery,      \* query cache, ['site-stock-summary', key] -> [state, via, data]
    \* ---- list pages: the search box and the list it filters
    listPage,          \* the page mounted
    fetched,           \* data of the page's list query: undefined or an array of rows
    searchTerm,        \* useState("") of each page
    filtered,          \* filteredItems, filteredBookings, ...: the rows rendered
    \* ---- sign-in view (Auth.tsx) behind the gate (App.tsx)
    email,             \* useState('') of Auth.tsx line 12
    otp,               \* useState('') of line 13
    step,              \* useState('email') of line 14
    loading,           \* useState(false) of line 15
    authRequest,       \* the signInWithOtp / verifyOtp call awaited, if any
    authResponse,      \* the answer to it, not yet taken by the handler
    user,              \* useAuth().user: "" for none
    authLoading,       \* useAuth().loading
    path,              \* the location the router sees
    rendered,          \* what ProtectedApp renders
    toast,             \* the last toast shown, with a bit that flips at each toast
    verifyFailures,    \* history: failed verifications so far, counted to two
    codeEmail,         \* history: the address of the last code request that succeeded
    outstanding,       \* the signInWithOtp / verifyOtp calls not yet returned to their handler
    \* ---- a page with mutations (Inventory.tsx, MaterialRequests.tsx) and its store table
    mutPage,           \* the page mounted
    table,             \* inventory_items / material_requests: id -> value, or "absent"
    listQuery,         \* the page's list query: [data, fetching]
    isAddDialogOpen,   \* Inventory.tsx line 21
    isEditDialogOpen,  \* Inventory.tsx line 20
    editingItem,       \* Inventory.tsx line 19: [id, value], id 0 for null
    form,              \* the values of the react-hook-form form (the item's name)
    inflight,          \* the mutation requests not yet settled
    latest,            \* per mutation hook, the number of its last mutate() call
    sent,              \* the number of requests sent to the store so far
    \* ---- a list query under the QueryClient's default options (App.tsx line 21)
    listFetch,         \* [status, fetching, failureCount] of the page's list query
    \* ---- the statements every page sends to the store, and the query cache
    atPage,            \* the page mounted
    stored,            \* per table, the number of writes the store has applied
    queryCache,        \* per query key: [version of the table it holds, fetching]
    pending,           \* the mutation requests not yet settled
    issued,            \* the number of mutation requests sent so far
    \* ---- two clients of one table
    shared,            \* the table in the store: id -> value
    client,            \* per client: [cache, fetching, req, notice]
    order,             \* history: the updates in the order the store applied them
    writes,            \* the number of update requests sent so far
    \* ---- image keys resolved to URLs (getImageUrl of three pages)
    imagePage,         \* the page rendering the first image
    otherPage,         \* the page rendering the second image
    imageKey,          \* image_key of the first row: null or a string
    otherKey,          \* image_key of the second row
    imageUrl,          \* what getImageUrl returned for the first, once rendered
    otherUrl,          \* what getImageUrl returned for the second
    resolved,          \* whether the two images have been rendered
    \* ---- a timestamp formatted for display (formatDateTime of Activities)
    dateString,        \* created_at of the activity: date, time and suffix
    localOffset,       \* minutes the browser's time zone is ahead of UTC
    formatted,         \* what formatDateTime returned, once rendered
    \* ---- the two per-site queries of the Inventory page while sites are switched
    chosenSite,        \* selectedSite of the page
    storeVersion,      \* how often the store's transactions have changed
    siteCache,         \* query cache: query key -> data, or no data yet
    siteRequests,      \* the queryFn calls awaiting the store
    lateAnswer,        \* history: an answer arrived for a site no longer selected
    \* ---- the delete buttons of a list page
    delPage,           \* the page mounted
    storeRows,         \* the ids of the rows in the page's table
    shownRows,         \* the ids of the rows the page lists
    listStale,         \* the list query was invalidated and has not returned yet
    deletes,           \* the delete requests not yet settled
    deletesSent,       \* the number of delete requests sent so far
    prompt,            \* history: the row and the answer of the last window.confirm
    \* ---- the image dialog of the Activities page
    imageZoom,         \* the zoom factor, in hundredths
    selectedImage,     \* the URL shown in the dialog, or null
    isImageDialogOpen, \* the dialog is open
    zoomOp             \* history: the handler that ran last

scanVars == <<transactions, otherResponse, stockMap, scanResult, scanned,
              firstSummary, runs>>

stockVars == <<inventory_transactions, selectedSite, summaryQuery>>

filterVars == <<listPage, fetched, searchTerm, filtered>>

authVars == <<email, otp, step, loading, authRequest, authResponse, user,
              authLoading, path, rendered, verifyFailures, codeEmail,
              outstanding>>

mutVars == <<mutPage, table, listQuery, isAddDialogOpen, isEditDialogOpen,
             editingItem, form, inflight, latest, sent>>

fetchVars == <<listFetch>>

\* the variables of the machines that follow the mutations
pagesVars == <<atPage, stored, queryCache, pending, issued>>

concVars == <<shared, client, order, writes>>

imageVars == <<imagePage, otherPage, imageKey, otherKey, imageUrl, otherUrl, resolved>>

\* the variables of the pure functions
dateVars == <<dateString, localOffset, formatted>>

pureVars == <<imageVars, dateVars>>

switchVars == <<chosenSite, storeVersion, siteCache, siteRequests, lateAnswer>>

\* the variables of the machines added last
deleteVars == <<delPage, storeRows, shownRows, listStale, deletes, deletesSent, prompt>>

zoomVars == <<imageZoom, selectedImage, isImageDialogOpen, zoomOp>>

lateVars == <<switchVars, deleteVars, zoomVars>>

restVars == <<fetchVars, pagesVars, concVars, pureVars, lateVars>>

vars == <<scanVars, stockVars, filterVars, authVars, mutVars, restVars, toast>>

-----------------------------------------------------------------------------
(* Bounds and small value sets                                             *)

\* longest response given to the scan
MaxLen == 3
\* most rows of inventory_transactions
MaxTx == 3
\* longest string of a searched field or of the search term
MaxStr == 2
\* most mutation requests sent in a behaviour
MaxWrites == 2
\* longest response of rows with arbitrary joins given to the scan
MaxJoinLen == 2
\* longest image key
MaxKeyLen == 2
\* last month of the year (besides December) that timestamps are drawn from
MaxMonth == 2
\* how often the store's transactions change while the page is open
MaxChanges == 1

Sites == {"s1", "s2"}
ItemIds == {"A", "B"}
Stocks == {3, 5}
Times == {1, 2}

\* the joined inventory_items of a row of the fallback select: null, or the
\* name, category and unit of an item
NoJoin == [null |-> TRUE, name |-> "", category |-> "", unit |-> ""]
JoinOf(item) ==
    IF item = "A"
    THEN [null |-> FALSE, name |-> "cement", category |-> "binder", unit |-> "bag"]
    ELSE [null |-> FALSE, name |-> "sand", category |-> "aggregate", unit |-> "kg"]
ItemJoins == {NoJoin} \cup {JoinOf(i) : i \in ItemIds}

\* a row of the fallback select: item_id, new_stock, created_at and the join
TxRow ==
    [item_id : ItemIds, new_stock : Stocks, created_at : Times, inventory_items : ItemJoins]

\* the rows whose join is the item their item_id names
JoinedTxRow == {r \in TxRow : r.inventory_items = JoinOf(r.item_id)}

RECURSIVE SeqsUpTo(_, _)
SeqsUpTo(S, n) ==
    IF n = 0 THEN {<< >>}
    ELSE LET shorter == SeqsUpTo(S, n - 1)
         IN  shorter \cup {Append(s, x) : s \in {t \in shorter : Len(t) = n - 1}, x \in S}

\* `data` of a supabase response: null or an array of rows
NullData == [null |-> TRUE, rows |-> << >>]
Rows(rs) == [null |-> FALSE, rows |-> rs]

-----------------------------------------------------------------------------
(* The scan: Inventory.tsx lines 115-130                                   *)

\* const stockMap = new Map()
NewStockMap == << >>

\* stockMap.has(key)
MapHas(map, key) == \E i \in 1..Len(map) : map[i].item_id = key

\* transaction.inventory_items?.name and the like: undefined for a null join
Undefined == "undefined"
OptionalField(join, value) == IF join.null THEN Undefined ELSE value

\* the entry stored for a transaction (lines 119-126)
SummaryEntry(transaction) ==
    [item_id       |-> transaction.item_id,
     current_stock |-> transaction.new_stock,
     item_name     |-> OptionalField(transaction.inventory_items,
                                     transaction.inventory_items.name),
     item_category |-> OptionalField(transaction.inventory_items,
                                     transaction.inventory_items.category),
     item_unit     |-> OptionalField(transaction.inventory_items,
                                     transaction.inventory_items.unit),
     last_updated  |-> transaction.created_at]

\* a callback that, for a key already present, refreshes the entry's item
\* fields from the later transaction
forEachCallbackRefreshItem(map, transaction) ==
    IF MapHas(map, transaction.item_id)
    THEN [i \in 1..Len(map) |->
            IF map[i].item_id = transaction.item_id
            THEN [map[i] EXCEPT
                     !.item_name = SummaryEntry(transaction).item_name,
                     !.item_category = SummaryEntry(transaction).item_category,
                     !.item_unit = SummaryEntry(transaction).item_unit]
            ELSE map[i]]
    ELSE Append(map, SummaryEntry(transaction))

\* a callback that stores every transaction, overwriting the entry of a key
\* already present (Map.set keeps the key's position)
forEachCallbackOverwrite(map, transaction) ==
    IF MapHas(map, transaction.item_id)
    THEN [i \in 1..Len(map) |->
            IF map[i].item_id = transaction.item_id
            THEN SummaryEntry(transaction) ELSE map[i]]
    ELSE Append(map, SummaryEntry(transaction))

\* a callback that collects an entry per transaction (an array, not a Map)
forEachCallbackPush(map, transaction) == Append(map, SummaryEntry(transaction))

\* the forEach callback (lines 117-128): set only when the key is absent
forEachCallback(map, transaction) ==
    IF ~MapHas(map, transaction.item_id)
    THEN Append(map, SummaryEntry(transaction))
    ELSE map

RECURSIVE forEachFrom(_, _, _)
forEachFrom(map, rows, i) ==
    IF i > Len(rows) THEN map
    ELSE forEachFrom(forEachCallback(map, rows[i]), rows, i + 1)

\* a scan that dereferences a null response (transactions.forEach)
ScanNoOptionalChain(map, response) ==
    IF response.null
    THEN [status |-> "error", map |-> map]
    ELSE [status |-> "success", map |-> forEachFrom(map, response.rows, 1)]

\* transactions?.forEach(...): nothing is visited when the response is null
Scan(map, response) ==
    IF response.null
    THEN [status |-> "success", map |-> map]
    ELSE [status |-> "success", map |-> forEachFrom(map, response.rows, 1)]

\* a Map kept across runs of the queryFn
StaleStockMap == stockMap

\* the Map a run starts from (line 116: created inside the queryFn)
InitialStockMap == NewStockMap

\* Array.from(stockMap.values()) (line 130)
ArrayFromValues(map) == map

NotRun == [status |-> "idle", data |-> << >>]

\* one run of lines 115-130 on `response`
RunScan(response) ==
    LET r == Scan(InitialStockMap, response)
    IN  /\ stockMap' = r.map
        /\ scanResult' = [status |-> r.status,
                          data   |-> IF r.status = "success"
                                     THEN ArrayFromValues(r.map) ELSE << >>]

-----------------------------------------------------------------------------
(* The siteStockSummary query: Inventory.tsx lines 86-135                  *)

\* a row of inventory_transactions: per site and item an older row, a newer
\* row with another stock, and a row tying with the newer one on created_at;
\* site s1 holds both items, site s2 one
StoreRow ==
    {r \in [site_id : Sites, item_id : ItemIds, new_stock : Stocks, created_at : Times] :
        /\ ~(r.new_stock = 5 /\ r.created_at = 1)
        /\ ~(r.site_id = "s2" /\ r.item_id = "B")}

\* the tables of at most n rows
TablesUpTo(n) == {t \in SUBSET StoreRow : Cardinality(t) <= n}

\* the column list of the fallback select (lines 99-109)
SelectColumns(row) ==
    [item_id |-> row.item_id, new_stock |-> row.new_stock, created_at |-> row.created_at,
     inventory_items |-> JoinOf(row.item_id)]

\* the orders in which the store may return `rows`: every arrangement
\* accepted by `inOrder` (rows equal under the sort key come in any order)
Descending(a, b) == a.created_at >= b.created_at
Ascending(a, b) == a.created_at <= b.created_at

Arrangements(rows, ascending) ==
    LET n == Cardinality(rows)
        inOrder(a, b) == IF ascending THEN Ascending(a, b) ELSE Descending(a, b)
    IN  {f \in [1..n -> rows] :
            /\ \A i, j \in 1..n : i # j => f[i] # f[j]
            /\ \A i \in 1..(n - 1) : inOrder(f[i], f[i + 1])}

Project(f) == [i \in 1..Len(f) |-> SelectColumns(f[i])]

\* a select that orders by created_at ascending
FallbackSelectAscending(site) ==
    {Project(f) : f \in Arrangements({r \in inventory_transactions : r.site_id = site},
                                     TRUE)}

\* the responses the fallback select may get (lines 97-111):
\* .eq('site_id', selectedSite).order('created_at', { ascending: false })
FallbackSelect(site) ==
    {Project(f) : f \in Arrangements({r \in inventory_transactions : r.site_id = site},
                                     FALSE)}

\* the orders a set of items may be listed in
Orderings(items) ==
    {ord \in [1..Cardinality(items) -> items] :
        \A i, j \in DOMAIN ord : i # j => ord[i] # ord[j]}

\* what the server-side procedure returns (spec.md 3, StockSummary): one
\* entry per item with a transaction at the site, taken from a transaction
\* of that item and site of greatest created_at; the order of the entries
\* and the choice among equal created_at are the store's
get_site_stock_summary(site) ==
    LET atSite == {r \in inventory_transactions : r.site_id = site}
        items == {r.item_id : r \in atSite}
        newest(i) == {r \in atSite : /\ r.item_id = i
                                     /\ \A o \in atSite :
                                          o.item_id = i => o.created_at <= r.created_at}
        picks == {f \in [items -> atSite] : \A i \in items : f[i] \in newest(i)}
    IN  {[k \in DOMAIN ord |-> SummaryEntry(SelectColumns(f[ord[k]]))] :
            f \in picks, ord \in Orderings(items)}

\* a fetch that goes to the fallback select without asking the procedure
StartFetchSkipRpc(q, key) ==
    IF key = ""
    THEN [state |-> "success", via |-> "none", data |-> << >>]
    ELSE IF q.state \in {"rpc", "fallback"} THEN q
    ELSE [q EXCEPT !.state = "fallback"]

QueryKeys == {""} \cup Sites

IdleQuery == [state |-> "idle", via |-> "none", data |-> << >>]

\* the queryFn up to its first await (lines 88-93), started for `key`;
\* a fetch in flight for the key is shared, the cached data stays meanwhile
StartFetch(q, key) ==
    IF key = ""
    THEN [state |-> "success", via |-> "none", data |-> << >>]
    ELSE IF q.state \in {"rpc", "fallback"} THEN q
    ELSE [q EXCEPT !.state = "rpc"]

StockInit ==
    /\ inventory_transactions \in TablesUpTo(MaxTx)
    /\ selectedSite = ""
    /\ summaryQuery = [k \in QueryKeys |-> IF k = "" THEN StartFetch(IdleQuery, k)
                                          ELSE IdleQuery]

\* the values the stock variables keep in the specifications that do not use them
StockIdle ==
    /\ inventory_transactions = {}
    /\ selectedSite = ""
    /\ summaryQuery = [k \in QueryKeys |-> IdleQuery]

\* Select onValueChange={setSelectedSite} (line 370): the query of the new key fetches
setSelectedSite(site) ==
    /\ site # selectedSite
    /\ selectedSite' = site
    /\ summaryQuery' = [summaryQuery EXCEPT ![site] = StartFetch(@, site)]
    /\ UNCHANGED <<inventory_transactions, scanVars, filterVars, authVars, mutVars, restVars, toast>>

\* the rpc of line 92 answers with an error: the fallback select is sent (lines 95-111)
RpcError(key) ==
    /\ summaryQuery[key].state = "rpc"
    /\ summaryQuery' = [summaryQuery EXCEPT ![key].state = "fallback"]
    /\ UNCHANGED <<inventory_transactions, selectedSite, scanVars, filterVars, authVars, mutVars, restVars, toast>>

\* the rpc answers with data: return data || [] (line 133)
RpcData(key) ==
    /\ summaryQuery[key].state = "rpc"
    /\ \E data \in get_site_stock_summary(key) :
          summaryQuery' = [summaryQuery EXCEPT
                              ![key] = [state |-> "success", via |-> "rpc", data |-> data]]
    /\ UNCHANGED <<inventory_transactions, selectedSite, scanVars, filterVars, authVars, mutVars, restVars, toast>>

\* the fallback select answers with an error: throw transError (line 113)
FallbackError(key) ==
    /\ summaryQuery[key].state = "fallback"
    /\ summaryQuery' = [summaryQuery EXCEPT ![key].state = "error"]
    /\ UNCHANGED <<inventory_transactions, selectedSite, scanVars, filterVars, authVars, mutVars, restVars, toast>>

\* the fallback select answers with rows: scan and return (lines 115-130)
FallbackData(key) ==
    /\ summaryQuery[key].state = "fallback"
    /\ \E resp \in FallbackSelect(key) :
          LET r == Scan(InitialStockMap, Rows(resp))
          IN  /\ stockMap' = r.map
              /\ summaryQuery' = [summaryQuery EXCEPT
                    ![key] = [state |-> "success", via |-> "fallback",
                              data |-> ArrayFromValues(r.map)]]
    /\ UNCHANGED <<inventory_transactions, selectedSite, transactions, otherResponse,
                   scanResult, scanned, firstSummary, runs, filterVars, authVars, mutVars, restVars, toast>>

StockNext ==
    \/ \E site \in Sites : setSelectedSite(site)
    \/ \E key \in Sites : RpcError(key)
    \/ \E key \in Sites : RpcData(key)
    \/ \E key \in Sites : FallbackError(key)
    \/ \E key \in Sites : FallbackData(key)

\* the values the scan variables keep in the specifications that do not use them
ScanIdle ==
    /\ transactions = NullData
    /\ otherResponse = NullData
    /\ stockMap = NewStockMap
    /\ scanResult = NotRun
    /\ scanned = "none"
    /\ firstSummary = NotRun
    /\ runs = 0

\* const { data: siteStockSummary } for the selected site (line 86)
siteStockSummary == summaryQuery[selectedSite].data

-----------------------------------------------------------------------------
(* Claims about the query, checked under SpecStock                         *)

\* the summary shown was computed by the fallback scan for the selected site
ShownFromFallback ==
    /\ selectedSite \in Sites
    /\ summaryQuery[selectedSite].via = "fallback"

\* the rows of the table for a site and an item
RowsOf(site, item) ==
    {r \in inventory_transactions : r.site_id = site /\ r.item_id = item}

\* the rows of greatest created_at among `rows`
Latest(rows) == {r \in rows : \A o \in rows : o.created_at <= r.created_at}

StockOf(summary) ==
    {[item_id |-> summary[k].item_id, current_stock |-> summary[k].current_stock] :
        k \in DOMAIN summary}

-----------------------------------------------------------------------------
(* The search filters of the list pages                                    *)

\* strings are sequences of characters; one letter in both cases is enough
\* to tell a case-sensitive comparison from a case-insensitive one
Chars == {"a", "A"}
Strings == SeqsUpTo(Chars, MaxStr)

\* String.prototype.toLowerCase
LowerChar(c) == IF c = "A" THEN "a" ELSE c
toLowerCase(s) == [i \in 1..Len(s) |-> LowerChar(s[i])]

\* String.prototype.includes
includes(s, t) ==
    \E i \in 0..(Len(s) - Len(t)) : \A k \in 1..Len(t) : s[i + k] = t[k]

\* a column value: null or a string
NullField == [null |-> TRUE, str |-> << >>]
Str(s) == [null |-> FALSE, str |-> s]
FieldValues == {NullField} \cup {Str(s) : s \in Strings}

\* field?.toLowerCase().includes(searchTerm.toLowerCase()): undefined, hence
\* falsy, for a null field
LowerIncludes(field, term) ==
    ~field.null /\ includes(toLowerCase(field.str), toLowerCase(term))

\* field?.includes(searchTerm)
PlainIncludes(field, term) == ~field.null /\ includes(field.str, term)

Pages == {"Inventory", "Activities", "MaterialRequests", "Sites", "Bookings",
          "UserSiteAssignments"}

\* the number of fields each page searches
SearchedFields(pg) ==
    CASE pg = "Inventory" -> 2             \* name, category
      [] pg = "Activities" -> 3            \* activity_type, description, users.name
      [] pg = "MaterialRequests" -> 3      \* material_name, users.name, sites.name
      [] pg = "Sites" -> 2                 \* name, location
      [] pg = "Bookings" -> 2              \* customer_name, customer_phone
      [] pg = "UserSiteAssignments" -> 3   \* users.name, sites.name, role

\* the searched fields the Row types declare as `string`, never null:
\* inventory_items.name and sites.name
NotNullFields(pg) ==
    CASE pg = "Inventory" -> {1}
      [] pg = "Sites" -> {1}
      [] OTHER -> {}

\* a fetched row, reduced to its searched fields
ListRow(pg) ==
    {row \in [1..SearchedFields(pg) -> FieldValues] :
        \A f \in NotNullFields(pg) : ~row[f].null}

\* the filter callbacks, one per page
filteredItems(item, term) ==
    LowerIncludes(item[1], term) \/ LowerIncludes(item[2], term)

filteredActivities(activity, term) ==
    \/ LowerIncludes(activity[1], term)
    \/ LowerIncludes(activity[2], term)
    \/ LowerIncludes(activity[3], term)

filteredRequests(request, term) ==
    \/ LowerIncludes(request[1], term)
    \/ LowerIncludes(request[2], term)
    \/ LowerIncludes(request[3], term)

filteredSites(site, term) ==
    LowerIncludes(site[1], term) \/ LowerIncludes(site[2], term)

filteredBookings(booking, term) ==
    LowerIncludes(booking[1], term) \/ PlainIncludes(booking[2], term)

filteredAssignments(assignment, term) ==
    \/ LowerIncludes(assignment[1], term)
    \/ LowerIncludes(assignment[2], term)
    \/ LowerIncludes(assignment[3], term)

Keeps(pg, row, term) ==
    CASE pg = "Inventory" -> filteredItems(row, term)
      [] pg = "Activities" -> filteredActivities(row, term)
      [] pg = "MaterialRequests" -> filteredRequests(row, term)
      [] pg = "Sites" -> filteredSites(row, term)
      [] pg = "Bookings" -> filteredBookings(row, term)
      [] pg = "UserSiteAssignments" -> filteredAssignments(row, term)

\* Array.prototype.filter
RECURSIVE ArrayFilter(_, _, _)
ArrayFilter(pg, rows, term) ==
    IF rows = << >> THEN << >>
    ELSE LET rest == ArrayFilter(pg, Tail(rows), term)
         IN  IF Keeps(pg, Head(rows), term) THEN <<Head(rows)>> \o rest ELSE rest

\* data?.filter(...) || []
Filtered(pg, data, term) ==
    IF data.null THEN << >> ELSE ArrayFilter(pg, data.rows, term)

FilterInit ==
    /\ listPage \in Pages
    /\ fetched \in {NullData, Rows(<< >>)} \cup {Rows(<<r>>) : r \in ListRow(listPage)}
    /\ searchTerm = << >>
    /\ filtered = Filtered(listPage, fetched, searchTerm)

\* the values the list variables keep in the specifications that do not use them
FilterIdle ==
    /\ listPage = "Inventory"
    /\ fetched = NullData
    /\ searchTerm = << >>
    /\ filtered = << >>

\* onChange={(e) => setSearchTerm(e.target.value)}, and the render that follows
setSearchTerm(term) ==
    /\ term # searchTerm
    /\ searchTerm' = term
    /\ filtered' = Filtered(listPage, fetched, term)
    /\ UNCHANGED <<listPage, fetched, scanVars, stockVars, authVars, mutVars, restVars, toast>>

FilterNext == \E term \in Strings : setSearchTerm(term)

-----------------------------------------------------------------------------
(* Claims about the filters, checked under SpecFilter                      *)

\* the term occurs, compared case-insensitively, in a searched field of the row
OccursIgnoringCase(row, term) ==
    \E f \in DOMAIN row :
        ~row[f].null /\ includes(toLowerCase(row[f].str), toLowerCase(term))

\* C6: on every page a fetched row is shown if and only if the search term
\* occurs, compared case-insensitively, in at least one searched field.
C6_ShownIffOccursIgnoringCase ==
    ~fetched.null =>
        \A i \in 1..Len(fetched.rows) :
            (\E k \in 1..Len(filtered) : filtered[k] = fetched.rows[i])
                <=> OccursIgnoringCase(fetched.rows[i], searchTerm)

\* C26: with an empty search term every fetched row is shown: the filtered
\* list equals the fetched list on every page, rows whose searched fields are
\* all null or absent included.
C26_EmptyTermShowsEveryRow ==
    (searchTerm = << >> /\ ~fetched.null) => filtered = fetched.rows

-----------------------------------------------------------------------------
(* A list query under the default options of the QueryClient (App.tsx 21): *)
(* Inventory.tsx 35-46 and the like-shaped queries of the other list pages *)

\* retry of a query when new QueryClient() is given no defaultOptions
DefaultRetry == 3

\* the arrays the list select may return: no row, or one row of short fields
SelectResults(pg) ==
    {<< >>} \cup {<<r>> : r \in [1..SearchedFields(pg) -> {Str(<<c>>) : c \in Chars}]}

\* useQuery on mount: no data, the first select is on its way
FetchInit ==
    /\ listPage \in Pages
    /\ fetched = NullData
    /\ searchTerm = << >>
    /\ filtered = << >>
    /\ listFetch = [status |-> "pending", fetching |-> TRUE, failureCount |-> 0]

\* the value the query state keeps in the specifications that do not use it
FetchIdle == listFetch = [status |-> "pending", fetching |-> FALSE, failureCount |-> 0]

\* the queryFn's select answers with data: `return data`
SelectReturnsData(rows) ==
    /\ listFetch.fetching
    /\ fetched' = Rows(rows)
    /\ filtered' = Filtered(listPage, Rows(rows), searchTerm)
    /\ listFetch' = [status |-> "success", fetching |-> FALSE, failureCount |-> 0]
    /\ UNCHANGED <<listPage, searchTerm, scanVars, stockVars, authVars, mutVars, pagesVars, concVars, pureVars, lateVars,
                   toast>>

\* the queryFn's select answers with an error: `if (error) throw error`.
\* No page gives useQuery an error handler; the query is run again until it
\* has failed DefaultRetry times after the first failure.
SelectReturnsError ==
    /\ listFetch.fetching
    /\ listFetch' =
          IF listFetch.failureCount < DefaultRetry
          THEN [listFetch EXCEPT !.failureCount = @ + 1]
          ELSE [status |-> "error", fetching |-> FALSE,
                failureCount |-> listFetch.failureCount + 1]
    /\ UNCHANGED <<filterVars, scanVars, stockVars, authVars, mutVars, pagesVars, concVars, pureVars, lateVars,
                   toast>>

\* a settled query fetches again (window focus, remount, invalidation)
Refetch ==
    /\ ~listFetch.fetching
    /\ listFetch' = [listFetch EXCEPT !.fetching = TRUE, !.failureCount = 0]
    /\ UNCHANGED <<filterVars, scanVars, stockVars, authVars, mutVars, pagesVars, concVars, pureVars, lateVars,
                   toast>>

FetchNext ==
    \/ \E rows \in SelectResults(listPage) : SelectReturnsData(rows)
    \/ SelectReturnsError
    \/ Refetch
    \/ \E term \in Strings : setSearchTerm(term)

-----------------------------------------------------------------------------
(* Claims about store errors, checked under SpecFetch                      *)

\* the step receives a store error for the list query
QueryErrorReceived ==
    listFetch.fetching /\ listFetch'.failureCount = listFetch.failureCount + 1

\* C11: every store error is turned into a toast at the boundary where it is
\* raised, and the failed operation is not run again automatically; stated
\* here for an error of a query: the step that receives it shows a
\* destructive toast and leaves the query settled, not fetching.
C11_QueryErrorToastedNotRetried ==
    [][QueryErrorReceived =>
          /\ toast' # toast
          /\ toast'.variant = "destructive"
          /\ ~listFetch'.fetching]_vars

-----------------------------------------------------------------------------
(* The gate (App.tsx) and the sign-in view (Auth.tsx)                      *)

Emails == {"e1", "e2"}
Codes == {"123456", "654321"}

RoutePaths == {"/", "/users", "/sites", "/activities", "/material-requests",
               "/bookings", "/message-logs", "/sessions", "/employee-otps"}
Paths == RoutePaths \cup {"/no-such-page", "/inventory"}

\* the <Route> children of <Routes>, App.tsx lines 43-52, as listed
RouteTable ==
    << [path |-> "/", element |-> "Dashboard"],
       [path |-> "/users", element |-> "Users"],
       [path |-> "/sites", element |-> "Sites"],
       [path |-> "/activities", element |-> "Activities"],
       [path |-> "/material-requests", element |-> "MaterialRequests"],
       [path |-> "/bookings", element |-> "Bookings"],
       [path |-> "/message-logs", element |-> "MessageLogs"],
       [path |-> "/sessions", element |-> "Sessions"],
       [path |-> "/employee-otps", element |-> "EmployeeOTPs"],
       [path |-> "*", element |-> "NotFound"] >>

\* a static pattern matches its own path, the splat matches every path
matchPath(pattern, p) == pattern = "*" \/ pattern = p

\* the router ranks a splat below every static pattern
Score(pattern) == IF pattern = "*" THEN 0 ELSE 1

\* the routes that match a location and are ranked highest among those
BestMatches(p) ==
    LET matching == {i \in DOMAIN RouteTable : matchPath(RouteTable[i].path, p)}
    IN  {i \in matching :
            \A j \in matching : Score(RouteTable[i].path) >= Score(RouteTable[j].path)}

\* a router that renders the match listed last
RoutesLastListed(p) ==
    LET matching == {i \in DOMAIN RouteTable : matchPath(RouteTable[i].path, p)}
    IN  RouteTable[CHOOSE i \in matching : \A j \in matching : j <= i].element

\* <Routes> of App.tsx lines 42-53: the element of the best match, the one
\* listed first among equals
Routes(p) ==
    LET best == BestMatches(p)
    IN  RouteTable[CHOOSE i \in best : \A j \in best : i <= j].element

\* a gate that checks only the loading flag
ProtectedAppNoUserCheck(u, l, p) == IF l THEN "Loading" ELSE Routes(p)

\* ProtectedApp of App.tsx lines 23-58
ProtectedApp(u, l, p) ==
    IF l THEN "Loading"
    ELSE IF u = "" THEN "Auth"
    ELSE Routes(p)

\* the render that follows a state change
Render == rendered' = ProtectedApp(user', authLoading', path')

NoRequest == [kind |-> "none", email |-> "", token |-> ""]
NoResponse == [kind |-> "none", error |-> FALSE]

NoToast == [title |-> "", description |-> "", variant |-> "default", flip |-> 0]

\* toast({...}) of use-toast: the toast replaces the one shown
Toast(title, description, variant) ==
    toast' = [title |-> title, description |-> description, variant |-> variant,
              flip |-> 1 - toast.flip]

\* the values of a freshly mounted Auth component (lines 12-15)
AuthMounted ==
    /\ email = ""
    /\ otp = ""
    /\ step = "email"
    /\ loading = FALSE

AuthInit ==
    /\ AuthMounted
    /\ authRequest = NoRequest
    /\ authResponse = NoResponse
    /\ user = ""
    /\ authLoading = TRUE
    /\ path \in Paths
    /\ rendered = ProtectedApp(user, authLoading, path)
    /\ toast = NoToast
    /\ verifyFailures = 0
    /\ codeEmail = ""
    /\ outstanding = 0

\* the values the sign-in variables keep in the specifications that do not use them
AuthIdle ==
    /\ AuthMounted
    /\ authRequest = NoRequest
    /\ authResponse = NoResponse
    /\ user = ""
    /\ authLoading = TRUE
    /\ path = "/"
    /\ rendered = "Loading"
    /\ verifyFailures = 0
    /\ codeEmail = ""
    /\ outstanding = 0

ToastIdle == toast = NoToast

\* AuthProvider has read the stored session: none, or a user signed in earlier
SessionLoaded(u) ==
    /\ authLoading
    /\ authLoading' = FALSE
    /\ user' = u
    /\ UNCHANGED <<email, otp, step, loading, authRequest, authResponse, path,
                   verifyFailures, codeEmail, outstanding, toast>>
    /\ UNCHANGED <<scanVars, stockVars, filterVars, mutVars, restVars>>
    /\ Render

\* the location changes (address bar, sidebar link)
Navigate(p) ==
    /\ p # path
    /\ path' = p
    /\ UNCHANGED <<email, otp, step, loading, authRequest, authResponse, user,
                   authLoading, verifyFailures, codeEmail, outstanding, toast>>
    /\ UNCHANGED <<scanVars, stockVars, filterVars, mutVars, restVars>>
    /\ Render

\* onChange of the email input (line 104), shown at step 'email'
setEmail(v) ==
    /\ rendered = "Auth" /\ step = "email"
    /\ v # email
    /\ email' = v
    /\ UNCHANGED <<otp, step, loading, authRequest, authResponse, user, authLoading,
                   path, rendered, verifyFailures, codeEmail, outstanding, toast>>
    /\ UNCHANGED <<scanVars, stockVars, filterVars, mutVars, restVars>>

\* onChange of the code input (line 128), shown at step 'otp'
setOtp(v) ==
    /\ rendered = "Auth" /\ step = "otp"
    /\ v # otp
    /\ otp' = v
    /\ UNCHANGED <<email, step, loading, authRequest, authResponse, user, authLoading,
                   path, rendered, verifyFailures, codeEmail, outstanding, toast>>
    /\ UNCHANGED <<scanVars, stockVars, filterVars, mutVars, restVars>>

\* a handler that sends the request whatever the address
handleEmailSubmitNoCheck ==
    /\ rendered = "Auth" /\ step = "email" /\ ~loading
    /\ loading' = TRUE
    /\ outstanding' = outstanding + 1
    /\ authRequest' = [kind |-> "signInWithOtp", email |-> email, token |-> ""]
    /\ UNCHANGED <<email, otp, step, authResponse, user, authLoading, path,
                   rendered, verifyFailures, codeEmail, toast>>
    /\ UNCHANGED <<scanVars, stockVars, filterVars, mutVars, restVars>>

\* handleEmailSubmit up to its await (lines 20-32); the submit button is
\* disabled while loading (line 109)
handleEmailSubmit ==
    /\ rendered = "Auth" /\ step = "email" /\ ~loading
    /\ IF email = ""
       THEN /\ Toast("Error", "Please enter your email address", "destructive")
            /\ UNCHANGED <<loading, authRequest, outstanding>>
       ELSE /\ loading' = TRUE
            /\ outstanding' = outstanding + 1
            /\ authRequest' = [kind |-> "signInWithOtp", email |-> email, token |-> ""]
            /\ UNCHANGED toast
    /\ UNCHANGED <<email, otp, step, authResponse, user, authLoading, path,
                   rendered, verifyFailures, codeEmail>>
    /\ UNCHANGED <<scanVars, stockVars, filterVars, mutVars, restVars>>

\* handleOtpSubmit up to its await (lines 50-62); the submit button is
\* disabled while loading (line 138)
handleOtpSubmit ==
    /\ rendered = "Auth" /\ step = "otp" /\ ~loading
    /\ IF otp = ""
       THEN /\ Toast("Error", "Please enter the verification code", "destructive")
            /\ UNCHANGED <<loading, authRequest, outstanding>>
       ELSE /\ loading' = TRUE
            /\ outstanding' = outstanding + 1
            /\ authRequest' = [kind |-> "verifyOtp", email |-> email, token |-> otp]
            /\ UNCHANGED toast
    /\ UNCHANGED <<email, otp, step, authResponse, user, authLoading, path,
                   rendered, verifyFailures, codeEmail>>
    /\ UNCHANGED <<scanVars, stockVars, filterVars, mutVars, restVars>>

\* the auth service answers the code request
signInWithOtp(error) ==
    /\ authRequest.kind = "signInWithOtp"
    /\ authResponse = NoResponse
    /\ authResponse' = [kind |-> "signInWithOtp", error |-> error]
    /\ UNCHANGED <<email, otp, step, loading, authRequest, user, authLoading, path,
                   rendered, verifyFailures, codeEmail, outstanding, toast>>
    /\ UNCHANGED <<scanVars, stockVars, filterVars, mutVars, restVars>>

\* the auth service answers the verification: a session exists from then on
\* exactly when it answers without an error
verifyOtp(error) ==
    /\ authRequest.kind = "verifyOtp"
    /\ authResponse = NoResponse
    /\ authResponse' = [kind |-> "verifyOtp", error |-> error]
    /\ user' = IF error THEN user ELSE authRequest.email
    /\ UNCHANGED <<email, otp, step, loading, authRequest, authLoading, path,
                   verifyFailures, codeEmail, outstanding, toast>>
    /\ UNCHANGED <<scanVars, stockVars, filterVars, mutVars, restVars>>
    /\ Render

\* a handler that returns at the error toast
AfterSignInWithOtpReturnOnError ==
    /\ authResponse.kind = "signInWithOtp"
    /\ IF authResponse.error
       THEN /\ Toast("Error", "Failed to send OTP", "destructive")
            /\ UNCHANGED <<step, loading>>
       ELSE /\ Toast("OTP Sent", "Check your email for the verification code", "default")
            /\ step' = "otp"
            /\ loading' = FALSE
    /\ outstanding' = outstanding - 1
    /\ authRequest' = NoRequest
    /\ authResponse' = NoResponse
    /\ codeEmail' = IF authResponse.error THEN codeEmail ELSE authRequest.email
    /\ UNCHANGED <<email, otp, user, authLoading, path, rendered, verifyFailures>>
    /\ UNCHANGED <<scanVars, stockVars, filterVars, mutVars, restVars>>

\* handleEmailSubmit after its await (lines 34-47)
AfterSignInWithOtp ==
    /\ authResponse.kind = "signInWithOtp"
    /\ IF authResponse.error
       THEN /\ Toast("Error", "Failed to send OTP", "destructive")
            /\ UNCHANGED step
       ELSE /\ Toast("OTP Sent", "Check your email for the verification code", "default")
            /\ step' = "otp"
    /\ loading' = FALSE
    /\ outstanding' = outstanding - 1
    /\ authRequest' = NoRequest
    /\ authResponse' = NoResponse
    /\ UNCHANGED <<email, otp, user, authLoading, path, rendered, verifyFailures>>
    /\ codeEmail' = IF authResponse.error THEN codeEmail ELSE authRequest.email
    /\ UNCHANGED <<scanVars, stockVars, filterVars, mutVars, restVars>>

\* a handler that navigates whatever the answer
AfterVerifyOtpAlwaysNavigate ==
    /\ authResponse.kind = "verifyOtp"
    /\ IF authResponse.error
       THEN Toast("Error", "Invalid verification code", "destructive")
       ELSE Toast("Success", "Successfully logged in!", "default")
    /\ path' = "/"
    /\ verifyFailures' = IF authResponse.error /\ verifyFailures < 2
                         THEN verifyFailures + 1 ELSE verifyFailures
    /\ UNCHANGED codeEmail
    /\ loading' = FALSE
    /\ outstanding' = outstanding - 1
    /\ authRequest' = NoRequest
    /\ authResponse' = NoResponse
    /\ UNCHANGED <<email, otp, step, user, authLoading>>
    /\ UNCHANGED <<scanVars, stockVars, filterVars, mutVars, restVars>>
    /\ Render

\* handleOtpSubmit after its await (lines 64-77)
AfterVerifyOtp ==
    /\ authResponse.kind = "verifyOtp"
    /\ IF authResponse.error
       THEN /\ Toast("Error", "Invalid verification code", "destructive")
            /\ UNCHANGED path
       ELSE /\ Toast("Success", "Successfully logged in!", "default")
            /\ path' = "/"
    /\ verifyFailures' = IF authResponse.error /\ verifyFailures < 2
                         THEN verifyFailures + 1 ELSE verifyFailures
    /\ UNCHANGED codeEmail
    /\ loading' = FALSE
    /\ outstanding' = outstanding - 1
    /\ authRequest' = NoRequest
    /\ authResponse' = NoResponse
    /\ UNCHANGED <<email, otp, step, user, authLoading>>
    /\ UNCHANGED <<scanVars, stockVars, filterVars, mutVars, restVars>>
    /\ Render

\* resetFlow (lines 80-84), the button shown at step 'otp'
resetFlow ==
    /\ rendered = "Auth" /\ step = "otp"
    /\ step' = "email"
    /\ otp' = ""
    /\ email' = ""
    /\ UNCHANGED <<loading, authRequest, authResponse, user, authLoading, path,
                   rendered, verifyFailures, codeEmail, outstanding, toast>>
    /\ UNCHANGED <<scanVars, stockVars, filterVars, mutVars, restVars>>

AuthNext ==
    \/ \E u \in {""} \cup Emails : SessionLoaded(u)
    \/ \E p \in Paths : Navigate(p)
    \/ \E v \in {""} \cup Emails : setEmail(v)
    \/ \E v \in {""} \cup Codes : setOtp(v)
    \/ handleEmailSubmit
    \/ handleOtpSubmit
    \/ \E error \in BOOLEAN : signInWithOtp(error)
    \/ \E error \in BOOLEAN : verifyOtp(error)
    \/ AfterSignInWithOtp
    \/ AfterVerifyOtp
    \/ resetFlow

\* an awaited call returns, and the handler awaiting it continues
AuthFairness ==
    WF_vars((\E error \in BOOLEAN : signInWithOtp(error))
            \/ (\E error \in BOOLEAN : verifyOtp(error))
            \/ AfterSignInWithOtp
            \/ AfterVerifyOtp)

-----------------------------------------------------------------------------
(* Claims about the sign-in view and the gate, checked under SpecAuth      *)

\* the step shows one of the two "please enter" toasts
EmptyFieldToastShown ==
    /\ toast' # toast
    /\ toast'.description \in {"Please enter your email address",
                               "Please enter the verification code"}

\* C7: a submit with an empty address or an empty code shows an error toast
\* and returns: no signInWithOtp / verifyOtp call is made with an empty field,
\* and the step that shows the error leaves step, loading, the entered values
\* and the request state unchanged.
C7_EmptySubmitRejected ==
    /\ [](authRequest.kind = "signInWithOtp" => authRequest.email # "")
    /\ [](authRequest.kind = "verifyOtp" => authRequest.token # "")
    /\ [][EmptyFieldToastShown =>
            /\ toast'.variant = "destructive"
            /\ (step = "email" => email = "") /\ (step = "otp" => otp = "")
            /\ UNCHANGED <<authRequest, authResponse, step, loading, email, otp,
                           user, path>>]_vars

\* the code step was submitted with an empty code: the error is shown, nothing is awaited
C7_Witness ==
    /\ toast.description = "Please enter the verification code"
    /\ step = "otp" /\ otp = "" /\ email # ""
    /\ ~loading
    /\ authRequest = NoRequest

\* the handler takes the error answer of a verification
FailedVerificationTaken ==
    /\ authResponse.kind = "verifyOtp"
    /\ authResponse.error
    /\ authResponse' = NoResponse

\* C8: when a verification returns an error, no navigation happens, the view
\* stays on the step it is on, an error toast is shown, there is still no
\* user, and the sign-in view, not a protected page, is what is rendered;
\* this holds at every failed attempt.
C8_FailedVerifyStaysUnauthenticated ==
    [][FailedVerificationTaken =>
          /\ path' = path
          /\ step' = step
          /\ toast' # toast /\ toast'.variant = "destructive"
          /\ user' = ""
          /\ rendered' = "Auth"]_vars

\* two verifications have failed: still the code step of the sign-in view, no user
C8_Witness ==
    /\ verifyFailures = 2
    /\ step = "otp"
    /\ toast.description = "Invalid verification code"
    /\ user = ""
    /\ rendered = "Auth"
    /\ path # "/"

\* C9: while there is no authenticated user, what is rendered is the loading
\* placeholder (auth state loading) or the sign-in view, whatever the path.
C9_GateHidesProtectedPages ==
    user = "" => rendered = (IF authLoading THEN "Loading" ELSE "Auth")

\* no user, auth state loaded, the location is a protected page's path
C9_Witness ==
    /\ user = ""
    /\ ~authLoading
    /\ path = "/users"
    /\ rendered = "Auth"

\* C23: the view starts at step 'email'; it reaches 'otp' only when a code
\* request for a non-empty address has returned without error, a failed one
\* leaves it at 'email'; it leaves 'otp' for 'email' only by resetFlow, which
\* clears the address and the code; and a verification is only ever sent
\* with the address the code was requested for.
C23_StepMachine ==
    /\ [](authLoading => step = "email")
    /\ [][(step = "email" /\ step' = "otp") =>
             /\ authResponse.kind = "signInWithOtp" /\ ~authResponse.error
             /\ authRequest.email # ""]_vars
    /\ [][(authResponse.kind = "signInWithOtp" /\ authResponse.error
              /\ authResponse' = NoResponse) => step' = "email"]_vars
    /\ [][(step = "otp" /\ step' = "email") => (email' = "" /\ otp' = "")]_vars
    /\ [](authRequest.kind = "verifyOtp" => authRequest.email = codeEmail)

\* C24: loading is true exactly while a signInWithOtp or verifyOtp call is
\* outstanding; every request started sets loading back to false in the
\* end, whatever its outcome; and at most one call is outstanding at a time.
C24_LoadingFollowsRequest ==
    /\ [](loading <=> outstanding > 0)
    /\ [](loading <=> authRequest # NoRequest)
    /\ [](outstanding <= 1)
    /\ (loading ~> ~loading)

\* a verification is awaited after the view was sent back to the email step
C24_Witness ==
    /\ loading
    /\ outstanding = 1
    /\ authRequest.kind = "verifyOtp"
    /\ step = "email"
    /\ rendered = "Auth"

\* the page the specification lists for a path
PageListedFor(p) ==
    CASE p = "/" -> "Dashboard"
      [] p = "/users" -> "Users"
      [] p = "/sites" -> "Sites"
      [] p = "/activities" -> "Activities"
      [] p = "/material-requests" -> "MaterialRequests"
      [] p = "/bookings" -> "Bookings"
      [] p = "/message-logs" -> "MessageLogs"
      [] p = "/sessions" -> "Sessions"
      [] p = "/employee-otps" -> "EmployeeOTPs"

\* C19: for an authenticated user, each of the nine listed paths renders its
\* own page, any other path renders the not-found page, and exactly one
\* route is rendered for the path.
C19_EachPathRendersItsPage ==
    (user # "" /\ ~authLoading) =>
        /\ path \in RoutePaths => rendered = PageListedFor(path)
        /\ path \notin RoutePaths => rendered = "NotFound"
        /\ Cardinality(BestMatches(path)) = 1
        /\ \A q \in RoutePaths : q # path => rendered # PageListedFor(q)

\* a signed-in user at a path that no route lists
C19_Witness ==
    /\ user # ""
    /\ ~authLoading
    /\ path = "/inventory"
    /\ rendered = "NotFound"


-----------------------------------------------------------------------------
(* Mutations: Inventory.tsx lines 137-257, MaterialRequests.tsx 40-104     *)

MutPages == {"Inventory", "MaterialRequests"}
RowIds == {1, 2}
Names == {"n1", "n2"}
Statuses == {"pending", "approved", "rejected"}

ValuesOf(pg) == IF pg = "Inventory" THEN Names ELSE Statuses
Mutations == {"create", "update", "delete", "updateStatus"}

NoTable == [id \in RowIds |-> "absent"]
NoItem == [id |-> 0, value |-> ""]

\* data of the list query before the first answer
NoListData == [null |-> TRUE, rows |-> NoTable]

\* useMutation().isPending: the state of the hook's last mutate() call
isPending(m) == \E r \in inflight : r.m = m /\ r.n = latest[m]

\* the descriptions of the toasts (onSuccess / onError of each useMutation)
SuccessText(pg, m) ==
    CASE pg = "Inventory" /\ m = "create" -> "Inventory item created successfully"
      [] pg = "Inventory" /\ m = "update" -> "Inventory item updated successfully"
      [] pg = "Inventory" /\ m = "delete" -> "Inventory item deleted successfully"
      [] pg = "MaterialRequests" /\ m = "updateStatus" -> "Status updated successfully"
      [] pg = "MaterialRequests" /\ m = "delete" -> "Material request deleted successfully"

ErrorText(pg, m) ==
    CASE pg = "Inventory" /\ m = "create" -> "Failed to create inventory item"
      [] pg = "Inventory" /\ m = "update" -> "Failed to update inventory item"
      [] pg = "Inventory" /\ m = "delete" -> "Failed to delete inventory item"
      [] pg = "MaterialRequests" /\ m = "updateStatus" -> "Failed to update status"
      [] pg = "MaterialRequests" /\ m = "delete" -> "Failed to delete material request"

\* the page mounts over a table of one stored row and one free id
MutInit ==
    /\ mutPage \in MutPages
    /\ table \in {t \in [RowIds -> ValuesOf(mutPage) \cup {"absent"}] :
                      t[1] # "absent" /\ t[2] = "absent"}
    /\ listQuery = [data |-> NoListData, fetching |-> TRUE]
    /\ isAddDialogOpen = FALSE
    /\ isEditDialogOpen = FALSE
    /\ editingItem = NoItem
    /\ form = ""
    /\ inflight = {}
    /\ latest = [m \in Mutations |-> 0]
    /\ sent = 0
    /\ toast = NoToast

\* the values the mutation variables keep in the specifications that do not use them
MutIdle ==
    /\ mutPage = "Inventory"
    /\ table = NoTable
    /\ listQuery = [data |-> NoListData, fetching |-> FALSE]
    /\ isAddDialogOpen = FALSE
    /\ isEditDialogOpen = FALSE
    /\ editingItem = NoItem
    /\ form = ""
    /\ inflight = {}
    /\ latest = [m \in Mutations |-> 0]
    /\ sent = 0

notMutVars == <<scanVars, stockVars, filterVars, authVars, restVars>>

\* the list query's select answers (Inventory.tsx 37-45, MaterialRequests.tsx 19-37)
ListQueryReturns(error) ==
    /\ listQuery.fetching
    /\ listQuery' = IF error THEN [listQuery EXCEPT !.fetching = FALSE]
                    ELSE [data |-> [null |-> FALSE, rows |-> table], fetching |-> FALSE]
    /\ UNCHANGED <<mutPage, table, isAddDialogOpen, isEditDialogOpen, editingItem, form,
                   inflight, latest, sent, toast, notMutVars>>

\* the rows the page lists
Listed(id) == ~listQuery.data.null /\ listQuery.data.rows[id] # "absent"

NoDialogOpen == ~isAddDialogOpen /\ ~isEditDialogOpen

\* mutation.mutate(variables): one request goes to the store
mutate(m, id, value) ==
    /\ sent < MaxWrites
    /\ sent' = sent + 1
    /\ latest' = [latest EXCEPT ![m] = sent + 1]
    /\ inflight' = inflight \cup
          {[n |-> sent + 1, m |-> m, id |-> id, value |-> value, response |-> "awaiting"]}

\* handleAdd (Inventory.tsx 232-240)
handleAdd ==
    /\ mutPage = "Inventory" /\ NoDialogOpen
    /\ form' = ""
    /\ isAddDialogOpen' = TRUE
    /\ UNCHANGED <<mutPage, table, listQuery, isEditDialogOpen, editingItem, inflight,
                   latest, sent, toast, notMutVars>>

\* handleEdit (Inventory.tsx 221-230), the Edit button of a listed row
handleEdit(id) ==
    /\ mutPage = "Inventory" /\ NoDialogOpen /\ Listed(id)
    /\ editingItem' = [id |-> id, value |-> listQuery.data.rows[id]]
    /\ form' = listQuery.data.rows[id]
    /\ isEditDialogOpen' = TRUE
    /\ UNCHANGED <<mutPage, table, listQuery, isAddDialogOpen, inflight, latest, sent,
                   toast, notMutVars>>

\* Cancel, or onOpenChange(false), of the Add dialog (lines 506, 582)
CloseAddDialog ==
    /\ isAddDialogOpen
    /\ isAddDialogOpen' = FALSE
    /\ UNCHANGED <<mutPage, table, listQuery, isEditDialogOpen, editingItem, form,
                   inflight, latest, sent, toast, notMutVars>>

\* Cancel, or onOpenChange(false), of the Edit dialog (lines 596, 672)
CloseEditDialog ==
    /\ isEditDialogOpen
    /\ isEditDialogOpen' = FALSE
    /\ UNCHANGED <<mutPage, table, listQuery, isAddDialogOpen, editingItem, form,
                   inflight, latest, sent, toast, notMutVars>>

\* typing into the form of the open dialog
EditForm(value) ==
    /\ isAddDialogOpen \/ isEditDialogOpen
    /\ value # form
    /\ form' = value
    /\ UNCHANGED <<mutPage, table, listQuery, isAddDialogOpen, isEditDialogOpen,
                   editingItem, inflight, latest, sent, toast, notMutVars>>

\* onSubmit (Inventory.tsx 242-251) from the dialog that is open; each
\* dialog's submit button is disabled while its own mutation is pending
onSubmit ==
    /\ \/ isAddDialogOpen /\ ~isPending("create")
       \/ isEditDialogOpen /\ ~isPending("update")
    /\ IF editingItem # NoItem
       THEN mutate("update", editingItem.id, form)
       ELSE mutate("create", 0, form)
    /\ UNCHANGED <<mutPage, table, listQuery, isAddDialogOpen, isEditDialogOpen,
                   editingItem, form, toast, notMutVars>>

\* handleDelete (Inventory.tsx 253-257, MaterialRequests.tsx 96-100)
handleDelete(id, confirmed) ==
    /\ NoDialogOpen /\ Listed(id) /\ ~isPending("delete")
    /\ IF confirmed
       THEN mutate("delete", id, "")
       ELSE UNCHANGED <<inflight, latest, sent>>
    /\ UNCHANGED <<mutPage, table, listQuery, isAddDialogOpen, isEditDialogOpen,
                   editingItem, form, toast, notMutVars>>

\* handleStatusUpdate (MaterialRequests.tsx 102-104), the buttons of a row
\* listed as pending (lines 210-229)
handleStatusUpdate(id, status) ==
    /\ mutPage = "MaterialRequests"
    /\ Listed(id) /\ listQuery.data.rows[id] = "pending"
    /\ ~isPending("updateStatus")
    /\ mutate("updateStatus", id, status)
    /\ UNCHANGED <<mutPage, table, listQuery, isAddDialogOpen, isEditDialogOpen,
                   editingItem, form, toast, notMutVars>>

\* the table after the store has run a request
Applied(r) ==
    CASE r.m = "create" ->
            IF \E id \in RowIds : table[id] = "absent"
            THEN LET id == CHOOSE id \in RowIds : table[id] = "absent"
                 IN  [table EXCEPT ![id] = r.value]
            ELSE table
      [] r.m \in {"update", "updateStatus"} ->
            IF table[r.id] # "absent" THEN [table EXCEPT ![r.id] = r.value] ELSE table
      [] r.m = "delete" -> [table EXCEPT ![r.id] = "absent"]

\* the store runs a request and answers it: with an error nothing is written
StoreAnswers(r, error) ==
    /\ r \in inflight /\ r.response = "awaiting"
    /\ table' = IF error THEN table ELSE Applied(r)
    /\ inflight' = (inflight \ {r})
                      \cup {[r EXCEPT !.response = IF error THEN "error" ELSE "ok"]}
    /\ UNCHANGED <<mutPage, listQuery, isAddDialogOpen, isEditDialogOpen, editingItem,
                   form, latest, sent, toast, notMutVars>>

\* queryClient.invalidateQueries: the mounted list query fetches again
invalidateQueries == listQuery' = [listQuery EXCEPT !.fetching = TRUE]

\* an onError that also does what onSuccess does to the cache
onErrorInvalidating(r) ==
    /\ Toast("Error", ErrorText(mutPage, r.m), "destructive")
    /\ invalidateQueries
    /\ UNCHANGED <<isAddDialogOpen, isEditDialogOpen, editingItem, form>>

\* onError of every useMutation: a toast, nothing else
onError(r) ==
    /\ Toast("Error", ErrorText(mutPage, r.m), "destructive")
    /\ UNCHANGED <<listQuery, isAddDialogOpen, isEditDialogOpen, editingItem, form>>

\* onSuccess (Inventory.tsx 145-153, 172-181, 200-206; MaterialRequests.tsx 49-55, 74-80)
onSuccess(r) ==
    /\ invalidateQueries
    /\ Toast("Success", SuccessText(mutPage, r.m), "default")
    /\ CASE mutPage = "Inventory" /\ r.m = "create" ->
               /\ isAddDialogOpen' = FALSE
               /\ form' = ""
               /\ UNCHANGED <<isEditDialogOpen, editingItem>>
         [] mutPage = "Inventory" /\ r.m = "update" ->
               /\ isEditDialogOpen' = FALSE
               /\ editingItem' = NoItem
               /\ form' = ""
               /\ UNCHANGED isAddDialogOpen
         [] OTHER ->
               UNCHANGED <<isAddDialogOpen, isEditDialogOpen, editingItem, form>>

\* the mutationFn's await returns: it resolves or throws, and the mutation settles
MutationSettles(r) ==
    /\ r \in inflight /\ r.response # "awaiting"
    /\ inflight' = inflight \ {r}
    /\ IF r.response = "error" THEN onError(r) ELSE onSuccess(r)
    /\ UNCHANGED <<mutPage, table, latest, sent, notMutVars>>

MutNext ==
    \/ \E error \in BOOLEAN : ListQueryReturns(error)
    \/ handleAdd
    \/ \E id \in RowIds : handleEdit(id)
    \/ CloseAddDialog
    \/ CloseEditDialog
    \/ \E value \in Names : EditForm(value)
    \/ onSubmit
    \/ \E id \in RowIds, confirmed \in BOOLEAN : handleDelete(id, confirmed)
    \/ \E id \in RowIds, status \in {"approved", "rejected"} : handleStatusUpdate(id, status)
    \/ \E r \in inflight, error \in BOOLEAN : StoreAnswers(r, error)
    \/ \E r \in inflight : MutationSettles(r)

-----------------------------------------------------------------------------
(* Claims about the mutations, checked under SpecMut                       *)

\* the step settles a request the store answered with an error
FailedWriteSettles(r) ==
    /\ r \in inflight /\ r.response = "error"
    /\ r \notin inflight'

\* C10: a failed write is sent once and not again (the store is not asked a
\* second time and it wrote nothing), an error toast is shown, the cached list
\* data is unchanged and not invalidated, and the dialogs, the item being
\* edited and the form are as they were.
C10_FailedWriteLeavesStateAlone ==
    [][\A r \in inflight :
          FailedWriteSettles(r) =>
              /\ sent' = sent
              /\ inflight' = inflight \ {r}
              /\ table' = table
              /\ toast' # toast
              /\ toast'.variant = "destructive"
              /\ toast'.description = ErrorText(mutPage, r.m)
              /\ listQuery' = listQuery
              /\ UNCHANGED <<isAddDialogOpen, isEditDialogOpen, editingItem, form>>]_vars

\* an update has failed: its toast is shown, the Edit dialog is still open on
\* the item, the list is cached and not being fetched, nothing is in flight
C10_Witness ==
    /\ toast.description = "Failed to update inventory item"
    /\ isEditDialogOpen
    /\ editingItem # NoItem
    /\ form # editingItem.value
    /\ ~listQuery.data.null /\ ~listQuery.fetching
    /\ table[editingItem.id] = editingItem.value
    /\ inflight = {}
    /\ sent = 1

\* C22: a status update is sent only for a row shown as 'pending' and
\* writes 'approved' or 'rejected'; so a row whose stored status is no
\* longer 'pending' never has its status changed from this page.
C22_OnlyPendingRowsAreDecided ==
    [][mutPage = "MaterialRequests" =>
          /\ \A r \in inflight' :
                (sent' = sent + 1 /\ r.n = sent' /\ r.m = "updateStatus") =>
                    /\ Listed(r.id) /\ listQuery.data.rows[r.id] = "pending"
                    /\ r.value \in {"approved", "rejected"}
          /\ \A id \in RowIds :
                table[id] \notin {"pending", "absent"} =>
                    table'[id] \in {table[id], "absent"}]_vars

\* C20: a submit while the Add dialog is open sends an insert, never an
\* update; an update is sent only from the open Edit dialog, for the row
\* whose Edit button opened it.
C20_AddSubmitsInsertEditSubmitsUpdate ==
    [][\A r \in inflight' :
          (sent' = sent + 1 /\ r.n = sent' /\ r.m \in {"create", "update"}) =>
              /\ isAddDialogOpen => r.m = "create"
              /\ r.m = "update" => (isEditDialogOpen /\ r.id = editingItem.id)]_vars

-----------------------------------------------------------------------------
(* The statements of every page, and the query cache they share            *)

AllPages == {"Inventory", "InventoryOld", "Activities", "MaterialRequests", "Sites",
             "Bookings", "UserSiteAssignments"}

Query(key, tbl) == [key |-> key, table |-> tbl]

\* the useQuery hooks of each page: query key (first element) and table read
PageQueries(pg) ==
    CASE pg = "Inventory" ->
            {Query("inventory-items", "inventory_items"), Query("sites", "sites"),
             Query("site-inventory", "inventory_transactions"),
             Query("site-stock-summary", "inventory_transactions")}
      [] pg = "InventoryOld" ->
            {Query("inventory-items", "inventory_items"), Query("sites", "sites"),
             Query("inventory-transactions", "inventory_transactions")}
      [] pg = "Activities" -> {Query("activities", "activities")}
      [] pg = "MaterialRequests" -> {Query("material-requests", "material_requests")}
      [] pg = "Sites" -> {Query("sites", "sites")}
      [] pg = "Bookings" -> {Query("bookings", "bookings")}
      [] pg = "UserSiteAssignments" ->
            {Query("user-site-assignments", "user_site_assignments"),
             Query("users", "users"), Query("sites", "sites")}

Mutation(op, tbl, invalidates, done, failed) ==
    [op |-> op, table |-> tbl, invalidates |-> invalidates, done |-> done,
     failed |-> failed]

\* pages whose delete mutation removes rows of the transaction log
PageMutationsOnLog(pg) ==
    {Mutation("delete", "inventory_transactions", "inventory-transactions",
              "Transaction deleted successfully", "Failed to delete transaction")}

\* the useMutation hooks of each page: statement, table written, key
\* invalidated by onSuccess, and the descriptions of the two toasts
PageMutations(pg) ==
    CASE pg \in {"Inventory", "InventoryOld"} ->
            {Mutation("insert", "inventory_items", "inventory-items",
                      "Inventory item created successfully",
                      "Failed to create inventory item"),
             Mutation("update", "inventory_items", "inventory-items",
                      "Inventory item updated successfully",
                      "Failed to update inventory item"),
             Mutation("delete", "inventory_items", "inventory-items",
                      "Inventory item deleted successfully",
                      "Failed to delete inventory item")}
      [] pg = "Activities" ->
            {Mutation("delete", "activities", "activities",
                      "Activity deleted successfully", "Failed to delete activity"),
             Mutation("update", "activities", "activities",
                      "Activity updated successfully", "Failed to update activity")}
      [] pg = "MaterialRequests" ->
            {Mutation("update", "material_requests", "material-requests",
                      "Status updated successfully", "Failed to update status"),
             Mutation("delete", "material_requests", "material-requests",
                      "Material request deleted successfully",
                      "Failed to delete material request")}
      [] pg = "Sites" ->
            {Mutation("delete", "sites", "sites",
                      "Site deleted successfully", "Failed to delete site")}
      [] pg = "Bookings" ->
            {Mutation("update", "bookings", "bookings",
                      "Booking status updated successfully",
                      "Failed to update booking status"),
             Mutation("delete", "bookings", "bookings",
                      "Booking deleted successfully", "Failed to delete booking")}
      [] pg = "UserSiteAssignments" ->
            {Mutation("insert", "user_site_assignments", "user-site-assignments",
                      "Assignment created successfully", "Failed to create assignment"),
             Mutation("update", "user_site_assignments", "user-site-assignments",
                      "Assignment updated successfully", "Failed to update assignment"),
             Mutation("delete", "user_site_assignments", "user-site-assignments",
                      "Assignment deleted successfully", "Failed to delete assignment")}

AllKeys == UNION {{q.key : q \in PageQueries(pg)} : pg \in AllPages}
AllTables == UNION {{q.table : q \in PageQueries(pg)} : pg \in AllPages}

\* the table a query key reads
TableOf(key) ==
    LET q == CHOOSE q \in UNION {PageQueries(pg) : pg \in AllPages} : q.key = key
    IN  q.table

\* the queries with an observer: those of the page mounted
Mounted(key) == \E q \in PageQueries(atPage) : q.key = key

NotCached == [version |-> -1, fetching |-> FALSE]

\* a page mounts: each of its queries has no data and starts to fetch
PagesInit ==
    /\ atPage \in AllPages
    /\ stored = [t \in AllTables |-> 0]
    /\ queryCache = [k \in AllKeys |->
                        IF \E q \in PageQueries(atPage) : q.key = k
                        THEN [version |-> -1, fetching |-> TRUE]
                        ELSE NotCached]
    /\ pending = {}
    /\ issued = 0
    /\ toast = NoToast

\* the values these variables keep in the specifications that do not use them
PagesIdle ==
    /\ atPage = "Inventory"
    /\ stored = [t \in AllTables |-> 0]
    /\ queryCache = [k \in AllKeys |-> NotCached]
    /\ pending = {}
    /\ issued = 0

notPagesVars == <<scanVars, stockVars, filterVars, authVars, mutVars, fetchVars, concVars,
                  pureVars, lateVars>>

\* a query's select returns the rows of its table as they are stored
QueryReturns(key) ==
    /\ queryCache[key].fetching
    /\ queryCache' = [queryCache EXCEPT
                         ![key] = [version |-> stored[TableOf(key)], fetching |-> FALSE]]
    /\ UNCHANGED <<atPage, stored, pending, issued, toast, notPagesVars>>

\* someMutation.mutate(...): one statement goes to the store
PageMutate(m) ==
    /\ m \in PageMutations(atPage)
    /\ issued < MaxWrites
    /\ issued' = issued + 1
    /\ pending' = pending \cup {[n |-> issued + 1, m |-> m, response |-> "awaiting"]}
    /\ UNCHANGED <<atPage, stored, queryCache, toast, notPagesVars>>

\* the store runs the statement and answers: with an error nothing is written
StoreRuns(r, error) ==
    /\ r \in pending /\ r.response = "awaiting"
    /\ stored' = IF error THEN stored ELSE [stored EXCEPT ![r.m.table] = @ + 1]
    /\ pending' = (pending \ {r})
                     \cup {[r EXCEPT !.response = IF error THEN "error" ELSE "ok"]}
    /\ UNCHANGED <<atPage, queryCache, issued, toast, notPagesVars>>

\* an invalidation that makes every mounted query fetch again
invalidateEveryQuery(key) ==
    [k \in AllKeys |-> IF Mounted(k)
                       THEN [queryCache[k] EXCEPT !.fetching = TRUE]
                       ELSE queryCache[k]]

\* an invalidation that marks nothing for fetching
invalidateNothing(key) == queryCache

\* queryClient.invalidateQueries({ queryKey: [key] }): the mounted queries
\* under that key fetch again
invalidate(key) ==
    [k \in AllKeys |-> IF k = key /\ Mounted(k)
                       THEN [queryCache[k] EXCEPT !.fetching = TRUE]
                       ELSE queryCache[k]]

\* the mutation settles: onSuccess invalidates and toasts, onError toasts
PageMutationSettles(r) ==
    /\ r \in pending /\ r.response # "awaiting"
    /\ pending' = pending \ {r}
    /\ IF r.response = "ok"
       THEN /\ queryCache' = invalidate(r.m.invalidates)
            /\ Toast("Success", r.m.done, "default")
       ELSE /\ UNCHANGED queryCache
            /\ Toast("Error", r.m.failed, "destructive")
    /\ UNCHANGED <<atPage, stored, issued, notPagesVars>>

PagesNext ==
    \/ \E key \in AllKeys : QueryReturns(key)
    \/ \E m \in PageMutations(atPage) : PageMutate(m)
    \/ \E r \in pending, error \in BOOLEAN : StoreRuns(r, error)
    \/ \E r \in pending : PageMutationSettles(r)

\* the store and the client do not stop while a statement is unanswered,
\* an answered mutation is unsettled or a fetch has not returned
PagesFairness ==
    WF_vars(\/ \E key \in AllKeys : QueryReturns(key)
            \/ \E r \in pending, error \in BOOLEAN : StoreRuns(r, error)
            \/ \E r \in pending : PageMutationSettles(r))

-----------------------------------------------------------------------------
(* Claims about the statements and the cache, checked under SpecPages      *)

\* the step settles a mutation the store ran without an error
SuccessfulWriteSettles(r) ==
    /\ r \in pending /\ r.response = "ok"
    /\ r \notin pending'

\* the store has applied a write whose mutation has yet to settle
WriteApplied == \E r \in pending : r.response = "ok"

\* every mounted query holds its table as it is stored, and none is fetching
ListsShowStore ==
    \A q \in PageQueries(atPage) :
        ~queryCache[q.key].fetching /\ queryCache[q.key].version = stored[q.table]

SiteQueryKeys == {"site-inventory", "site-stock-summary"}

\* C28: on the Inventory page the step that settles a successful create,
\* update or delete of an inventory item makes the 'inventory-items' query
\* fetch again and leaves every other query of the cache, the cached site
\* stock summary and transaction history among them, as it was; the selected
\* site is unchanged.
C28_ItemWriteInvalidatesOnlyItems ==
    [][atPage = "Inventory" =>
          \A r \in pending :
              SuccessfulWriteSettles(r) =>
                  /\ r.m.table = "inventory_items"
                  /\ queryCache'["inventory-items"].fetching
                  /\ \A k \in AllKeys \ {"inventory-items"} :
                         queryCache'[k] = queryCache[k]
                  /\ selectedSite' = selectedSite]_vars

\* an item write has settled on the Inventory page: the item list fetches
\* again while both per-site queries keep the data they had
C28_Witness ==
    /\ atPage = "Inventory"
    /\ toast.title = "Success"
    /\ stored["inventory_items"] > 0
    /\ queryCache["inventory-items"].fetching
    /\ \A k \in SiteQueryKeys :
           queryCache[k].version = 0 /\ ~queryCache[k].fetching

\* C15: no page sends an insert, update or delete on inventory_transactions:
\* no mutation request in flight names that table, the store has applied no
\* write to it, and the pages' statements on it are the selects of queries.
C15_TransactionLogOnlyRead ==
    /\ \A r \in pending : r.m.table # "inventory_transactions"
    /\ stored["inventory_transactions"] = 0
    /\ \A m \in PageMutations(atPage) : m.table # "inventory_transactions"

\* the Inventory page has read the log for both of its log queries and has
\* a write to inventory_items applied and another in flight
C15_Witness ==
    /\ atPage = "Inventory"
    /\ queryCache["site-inventory"].version = 0
    /\ queryCache["site-stock-summary"].version = 0
    /\ stored["inventory_items"] = 1
    /\ \E r \in pending : r.m.op = "delete" /\ r.response = "awaiting"

-----------------------------------------------------------------------------
(* Two clients editing one table: Inventory.tsx 163-190 (updateItemMutation) *)
(* and MaterialRequests.tsx 40-63 (updateStatusMutation), run twice         *)

Clients == {"c1", "c2"}

NoCache == [null |-> TRUE, rows |-> [id \in RowIds |-> ""]]
NoUpdate == [id |-> 0, set |-> "", expect |-> "any", response |-> "none"]

\* an update that asks the store to write only if the row still holds the
\* value the client has cached
UpdateIfUnchanged(id, value, cached) ==
    [id |-> id, set |-> value, expect |-> cached, response |-> "awaiting"]

\* the statement of the mutationFn: update(itemData).eq('id', id), with no
\* other condition on the row
UpdateById(id, value, cached) ==
    [id |-> id, set |-> value, expect |-> "any", response |-> "awaiting"]

\* both clients have the page mounted and are fetching the list
ConcInit ==
    /\ shared \in [RowIds -> Names]
    /\ client = [c \in Clients |->
                    [cache |-> NoCache, fetching |-> TRUE, req |-> NoUpdate,
                     notice |-> "none"]]
    /\ order = << >>
    /\ writes = 0

\* the values these variables keep in the specifications that do not use them
ConcIdle ==
    /\ shared = [id \in RowIds |-> "n1"]
    /\ client = [c \in Clients |->
                    [cache |-> NoCache, fetching |-> FALSE, req |-> NoUpdate,
                     notice |-> "none"]]
    /\ order = << >>
    /\ writes = 0

notConcVars == <<scanVars, stockVars, filterVars, authVars, mutVars, fetchVars, pagesVars,
                 pureVars, lateVars>>

\* a client's list select returns the table as stored
ClientFetches(c) ==
    /\ client[c].fetching
    /\ client' = [client EXCEPT ![c].cache = [null |-> FALSE, rows |-> shared],
                                ![c].fetching = FALSE]
    /\ UNCHANGED <<shared, order, writes, toast, notConcVars>>

\* a client edits a row it has listed and submits: mutate({ id, ...itemData });
\* the submit button is disabled while the client's update is pending
ClientUpdates(c, id, value) ==
    /\ ~client[c].cache.null
    /\ client[c].req = NoUpdate
    /\ writes < MaxWrites
    /\ writes' = writes + 1
    /\ client' = [client EXCEPT ![c].req = UpdateById(id, value, client[c].cache.rows[id])]
    /\ UNCHANGED <<shared, order, toast, notConcVars>>

\* the store runs a client's statement, one statement at a time: it fails
\* (error), or writes the row matched by the statement's conditions
StoreRunsUpdate(c, error) ==
    /\ client[c].req.response = "awaiting"
    /\ LET req == client[c].req
           matches == req.expect \in {"any", shared[req.id]}
       IN  IF error
           THEN /\ client' = [client EXCEPT ![c].req.response = "error"]
                /\ UNCHANGED <<shared, order>>
           ELSE IF matches
           THEN /\ shared' = [shared EXCEPT ![req.id] = req.set]
                /\ order' = Append(order, [by |-> c, id |-> req.id, set |-> req.set])
                /\ client' = [client EXCEPT ![c].req.response = "ok"]
           ELSE /\ client' = [client EXCEPT ![c].req.response = "conflict"]
                /\ UNCHANGED <<shared, order>>
    /\ UNCHANGED <<writes, toast, notConcVars>>

\* the client's mutation settles: onSuccess invalidates the list and shows
\* the success toast, onError shows the error toast
ClientSettles(c) ==
    /\ client[c].req.response \in {"ok", "error", "conflict"}
    /\ client' = [client EXCEPT
                     ![c].req = NoUpdate,
                     ![c].fetching = IF client[c].req.response = "ok" THEN TRUE ELSE @,
                     ![c].notice = IF client[c].req.response = "ok"
                                   THEN "Success" ELSE "Error"]
    /\ UNCHANGED <<shared, order, writes, toast, notConcVars>>

ConcNext ==
    \/ \E c \in Clients : ClientFetches(c)
    \/ \E c \in Clients, id \in RowIds, value \in Names : ClientUpdates(c, id, value)
    \/ \E c \in Clients, error \in BOOLEAN : StoreRunsUpdate(c, error)
    \/ \E c \in Clients : ClientSettles(c)

-----------------------------------------------------------------------------
(* Claims about concurrent edits, checked under SpecConc                   *)

\* the updates applied to a row, in the order applied
AppliedTo(id) == SelectSeq(order, LAMBDA w : w.id = id)

\* the step answers client c's update without a failure of the store
UpdateAnswered(c) ==
    /\ client[c].req.response = "awaiting"
    /\ client'[c].req.response \in {"ok", "conflict"}

\* C14: an update the store answers without failing is applied whatever the
\* row holds and whatever the client had cached, as one write of the row with
\* that id and of no other row; none is turned down as a conflict; and every
\* row updated holds the value of the update the store applied last.
C14_LastWriteWins ==
    /\ [][\A c \in Clients :
             UpdateAnswered(c) =>
                 /\ client'[c].req.response = "ok"
                 /\ shared' = [shared EXCEPT ![client[c].req.id] = client[c].req.set]]_vars
    /\ [](\A id \in RowIds :
             AppliedTo(id) # << >> =>
                 shared[id] = AppliedTo(id)[Len(AppliedTo(id))].set)

\* both clients listed the same value of row 1, each then updated that row
\* to a value of its own, both updates were applied and have settled, and
\* the row holds the second
C14_Witness ==
    /\ Len(order) = 2
    /\ order[1].id = 1 /\ order[2].id = 1
    /\ order[1].by # order[2].by
    /\ order[1].set # order[2].set
    /\ shared[1] = order[2].set
    /\ \A c \in Clients : client[c].req = NoUpdate /\ client[c].notice = "Success"
    /\ \E c \in Clients : ~client[c].cache.null /\ client[c].cache.rows[1] # shared[1]

-----------------------------------------------------------------------------
(* getImageUrl: Activities.tsx 319-322, MaterialRequests.tsx 124-127,      *)
(* Sites (src/unnamed/part_002 82-85)                                      *)

ImagePages == {"Activities", "MaterialRequests", "Sites"}

\* the characters of an image key, and the keys: null or a string
KeyChars == {"a", "b", "/"}
ImageKeys == {NullField} \cup {Str(k) : k \in SeqsUpTo(KeyChars, MaxKeyLen)}

\* the fixed public base path of the template literal, as one token
PublicBase == <<"https://pub-480de15262b346c8b5ebf5e8141b43f9.r2.dev/">>

\* a resolution that tests the key for null only
getImageUrlNullCheckOnly(imageKey_) ==
    IF imageKey_.null THEN NullField ELSE Str(PublicBase \o imageKey_.str)

\* getImageUrl of Activities.tsx: `if (!imageKey) return null`, then the
\* template literal
getImageUrl(imageKey_) ==
    IF imageKey_.null \/ imageKey_.str = << >>
    THEN NullField
    ELSE Str(PublicBase \o imageKey_.str)

\* getImageUrl of MaterialRequests.tsx
getImageUrl_MaterialRequests(imageKey_) ==
    IF imageKey_.null \/ imageKey_.str = << >>
    THEN NullField
    ELSE Str(PublicBase \o imageKey_.str)

\* getImageUrl of the Sites page
getImageUrl_Sites(imageKey_) ==
    IF imageKey_.null \/ imageKey_.str = << >>
    THEN NullField
    ELSE Str(PublicBase \o imageKey_.str)

\* the getImageUrl that a page calls
getImageUrlOn(pg, imageKey_) ==
    CASE pg = "Activities" -> getImageUrl(imageKey_)
      [] pg = "MaterialRequests" -> getImageUrl_MaterialRequests(imageKey_)
      [] pg = "Sites" -> getImageUrl_Sites(imageKey_)

ImageInit ==
    /\ imagePage \in ImagePages
    /\ otherPage \in ImagePages
    /\ imageKey \in ImageKeys
    /\ otherKey \in ImageKeys
    /\ imageUrl = NullField
    /\ otherUrl = NullField
    /\ resolved = FALSE

\* the values these variables keep in the specifications that do not use them
ImageIdle ==
    /\ imagePage = "Activities"
    /\ otherPage = "Activities"
    /\ imageKey = NullField
    /\ otherKey = NullField
    /\ imageUrl = NullField
    /\ otherUrl = NullField
    /\ resolved = FALSE

\* the two rows are rendered: src={getImageUrl(row.image_key)}
RenderImages ==
    /\ ~resolved
    /\ imageUrl' = getImageUrlOn(imagePage, imageKey)
    /\ otherUrl' = getImageUrlOn(otherPage, otherKey)
    /\ resolved' = TRUE
    /\ UNCHANGED <<imagePage, otherPage, imageKey, otherKey, scanVars, stockVars,
                   filterVars, authVars, mutVars, fetchVars, pagesVars, concVars,
                   dateVars, lateVars, toast>>

ImageNext ==
    RenderImages

-----------------------------------------------------------------------------
(* Claims about getImageUrl, checked under SpecImage                       *)

EmptyKey(k) == k.null \/ k.str = << >>

\* C17: getImageUrl gives null for a null or empty key and otherwise the
\* base path followed by the key as it is; two non-empty keys get the same
\* URL only if they are the same key, and one key gets the same URL on all
\* three pages.
C17_ImageUrlResolution ==
    resolved =>
        /\ EmptyKey(imageKey) => imageUrl = NullField
        /\ ~EmptyKey(imageKey) =>
              /\ ~imageUrl.null
              /\ Len(imageUrl.str) = Len(PublicBase) + Len(imageKey.str)
              /\ SubSeq(imageUrl.str, 1, Len(PublicBase)) = PublicBase
              /\ SubSeq(imageUrl.str, Len(PublicBase) + 1, Len(imageUrl.str)) = imageKey.str
        /\ (~EmptyKey(imageKey) /\ ~EmptyKey(otherKey)) =>
              (imageUrl = otherUrl <=> imageKey = otherKey)
        /\ imageKey = otherKey => imageUrl = otherUrl

\* an empty (not null) key and a key with a slash, on different pages
C17_Witness ==
    /\ resolved
    /\ imagePage # otherPage
    /\ ~imageKey.null /\ imageKey.str = << >>
    /\ ~otherKey.null /\ Len(otherKey.str) = MaxKeyLen /\ otherKey.str[1] = "/"
    /\ ~otherUrl.null

-----------------------------------------------------------------------------
(* formatDateTime: Activities.tsx 348-363                                  *)

\* the year the timestamps are drawn from (not a leap year) and its months
Year == 2025
DaysIn(month) ==
    CASE month = 2 -> 28
      [] month \in {4, 6, 9, 11} -> 30
      [] OTHER -> 31

RECURSIVE DaysBefore(_)
DaysBefore(month) == IF month = 1 THEN 0 ELSE DaysBefore(month - 1) + DaysIn(month - 1)

DaysInYear == DaysBefore(12) + DaysIn(12)

\* the timestamps of the rows: a date of the year, a time of day to the
\* minute, and nothing or 'Z' behind it
Months == (1..MaxMonth) \cup {12}
Minutes == {0, 15, 29, 30, 45, 59}
Suffixes == {<< >>, <<"Z">>}
DateStrings ==
    {[month |-> mo, day |-> d, hour |-> h, minute |-> mi, suffix |-> sf] :
        mo \in Months, d \in {1, 15, 27, 28, 30, 31}, h \in 0..23, mi \in Minutes,
        sf \in Suffixes}
ValidDateStrings == {ds \in DateStrings : ds.day <= DaysIn(ds.month)}

\* the time zones of the browser: UTC, Asia/Kolkata, America/New_York (winter)
LocalOffsets == {0, 330, -300}

\* dateString.includes('Z')
includesChar(str, ch) == \E i \in 1..Len(str.suffix) : str.suffix[i] = ch

\* dateString + (dateString.includes('Z') ? '' : 'Z')
AppendZ(str) ==
    [str EXCEPT !.suffix = str.suffix \o (IF includesChar(str, "Z") THEN << >> ELSE <<"Z">>)]

NaN == -1

\* new Date(string).getTime(), in minutes since the start of Year in UTC: a
\* date-time form ending in Z is UTC, one with nothing behind it is local
\* time, anything else is an invalid date
DateParse(str, offset) ==
    LET wall == (DaysBefore(str.month) + str.day - 1) * 1440 + str.hour * 60 + str.minute
    IN  CASE str.suffix = <<"Z">> -> wall
          [] str.suffix = << >> -> wall - offset
          [] OTHER -> NaN

\* a parse of the string as it came
utcDateAsGiven(str, offset) == DateParse(str, offset)

\* const utcDate = new Date(dateString + (dateString.includes('Z') ? '' : 'Z'))
utcDate(str, offset) == DateParse(AppendZ(str), offset)

\* 5.5 * 60 * 60 * 1000 milliseconds, in minutes
IstShift == 330

\* const istDate = new Date(utcDate.getTime() + (5.5 * 60 * 60 * 1000))
istDate(utc) == IF utc = NaN THEN NaN ELSE utc + IstShift

RECURSIVE MonthOfDay(_, _)
MonthOfDay(dayOfYear, month) ==
    IF dayOfYear < DaysIn(month)
    THEN [month |-> month, day |-> dayOfYear + 1]
    ELSE MonthOfDay(dayOfYear - DaysIn(month), month + 1)

InvalidDate == [text |-> "Invalid Date"]

\* toLocaleString('en-IN', {year, month, day, hour: '2-digit', minute,
\* hour12: true}) with no timeZone option: the fields of the instant in the
\* browser's zone, the hour on the twelve-hour clock
toLocaleString(instant, offset) ==
    IF instant = NaN THEN InvalidDate
    ELSE LET local == instant + offset
             dayIndex == local \div 1440
             ofDay == local % 1440
             date == MonthOfDay(dayIndex % DaysInYear, 1)
             hour24 == ofDay \div 60
         IN  [year |-> Year + (dayIndex \div DaysInYear),
              month |-> date.month,
              day |-> date.day,
              hour |-> IF hour24 % 12 = 0 THEN 12 ELSE hour24 % 12,
              minute |-> ofDay % 60,
              period |-> IF hour24 < 12 THEN "am" ELSE "pm"]

formatDateTime(str, offset) ==
    toLocaleString(istDate(utcDate(str, offset)), offset)

NotFormatted == [text |-> "not formatted"]

DateInit ==
    /\ dateString \in ValidDateStrings
    /\ localOffset \in LocalOffsets
    /\ formatted = NotFormatted

\* the values these variables keep in the specifications that do not use them
DateIdle ==
    /\ dateString = [month |-> 1, day |-> 1, hour |-> 0, minute |-> 0, suffix |-> << >>]
    /\ localOffset = 0
    /\ formatted = NotFormatted

\* the row is rendered: {formatDateTime(activity.created_at)}
RenderDate ==
    /\ formatted = NotFormatted
    /\ formatted' = formatDateTime(dateString, localOffset)
    /\ UNCHANGED <<dateString, localOffset, scanVars, stockVars, filterVars, authVars,
                   mutVars, fetchVars, pagesVars, concVars, imageVars, lateVars,
                   toast>>

DateNext ==
    RenderDate

-----------------------------------------------------------------------------
(* Claims about formatDateTime, checked under SpecDate                     *)

\* the clock reading `shift` minutes after the reading of dateString, carried
\* by hand from the minutes to the hours, the day, the month and the year
Advanced(str, shift) ==
    LET minuteSum == str.minute + (shift % 60)
        hourSum == str.hour + (shift \div 60) + (minuteSum \div 60)
        daySum == str.day + (hourSum \div 24)
        monthSum == str.month + (IF daySum > DaysIn(str.month) THEN 1 ELSE 0)
        hour24 == hourSum % 24
    IN  [year |-> IF monthSum > 12 THEN Year + 1 ELSE Year,
         month |-> IF monthSum > 12 THEN 1 ELSE monthSum,
         day |-> IF daySum > DaysIn(str.month) THEN 1 ELSE daySum,
         hour |-> IF hour24 \in {0, 12} THEN 12 ELSE IF hour24 > 12 THEN hour24 - 12 ELSE hour24,
         minute |-> minuteSum % 60,
         period |-> IF hour24 >= 12 THEN "pm" ELSE "am"]

-----------------------------------------------------------------------------
(* The per-site queries of Inventory.tsx (lines 61-135) while the selected *)
(* site changes (line 370)                                                 *)

SiteQueries == {"site-inventory", "site-stock-summary"}

\* a query key that leaves the site out
queryKeyWithoutSite(name, site) == <<name, "">>

\* queryKey: ['site-inventory', selectedSite], ['site-stock-summary', selectedSite]
queryKey(name, site) == <<name, site>>

SiteKeys == SiteQueries \X ({""} \cup Sites)

NoData == [site |-> "undefined", version |-> 0]

\* `if (!selectedSite) return []` (lines 64, 89)
EmptyArray == [site |-> "", version |-> 0]

\* what the store answers for a site: the site's rows as they are now
SiteData(site) == [site |-> site, version |-> storeVersion]

\* useQuery's data for the key of the site selected: siteInventoryData,
\* siteStockSummary
Displayed(name) == siteCache[queryKey(name, chosenSite)]

SwitchInit ==
    /\ chosenSite = ""
    /\ storeVersion = 0
    /\ siteCache = [k \in SiteKeys |-> IF k[2] = "" THEN EmptyArray ELSE NoData]
    /\ siteRequests = {}
    /\ lateAnswer = FALSE

\* the values these variables keep in the specifications that do not use them
SwitchIdle ==
    /\ chosenSite = ""
    /\ storeVersion = 0
    /\ siteCache = [k \in SiteKeys |-> NoData]
    /\ siteRequests = {}
    /\ lateAnswer = FALSE

notSwitchVars == <<scanVars, stockVars, filterVars, authVars, mutVars, fetchVars, pagesVars,
                   concVars, pureVars, deleteVars, zoomVars>>

\* the requests in flight after both queries observe the keys of `site`: a
\* key with a fetch in flight shares it, the queryFn of another key runs
\* with the site selected now
Observed(site) ==
    siteRequests \cup
        {[key |-> queryKey(name, site), site |-> site] :
            name \in {n \in SiteQueries :
                        \A r \in siteRequests : r.key # queryKey(n, site)}}

\* Select onValueChange={setSelectedSite} (line 370) and the render after it
SelectSite(site) ==
    /\ site # chosenSite
    /\ chosenSite' = site
    /\ IF site = ""
       THEN /\ siteCache' = [k \in SiteKeys |->
                                IF \E name \in SiteQueries : k = queryKey(name, site)
                                THEN EmptyArray ELSE siteCache[k]]
            /\ UNCHANGED siteRequests
       ELSE /\ siteRequests' = Observed(site)
            /\ UNCHANGED siteCache
    /\ UNCHANGED <<storeVersion, lateAnswer, notSwitchVars, toast>>

\* the select or rpc of a queryFn answers with rows: they become the data
\* of the key the fetch was started for
SiteQueryData(r) ==
    /\ r \in siteRequests
    /\ siteRequests' = siteRequests \ {r}
    /\ siteCache' = [siteCache EXCEPT ![r.key] = SiteData(r.site)]
    /\ lateAnswer' = (lateAnswer \/ r.site # chosenSite)
    /\ UNCHANGED <<chosenSite, storeVersion, notSwitchVars, toast>>

\* the queryFn throws for good: the key keeps the data it had
SiteQueryError(r) ==
    /\ r \in siteRequests
    /\ siteRequests' = siteRequests \ {r}
    /\ UNCHANGED <<chosenSite, storeVersion, siteCache, lateAnswer, notSwitchVars, toast>>

\* a transaction is recorded in the store by someone
StoreChanges ==
    /\ storeVersion < MaxChanges
    /\ storeVersion' = storeVersion + 1
    /\ UNCHANGED <<chosenSite, siteCache, siteRequests, lateAnswer, notSwitchVars, toast>>

SwitchNext ==
    \/ \E site \in {""} \cup Sites : SelectSite(site)
    \/ \E r \in siteRequests : SiteQueryData(r)
    \/ \E r \in siteRequests : SiteQueryError(r)
    \/ StoreChanges

-----------------------------------------------------------------------------
(* Claims about switching sites, checked under SpecSwitch                  *)

\* C21: whatever the order of site selections and answers, the summary and
\* the history shown are data fetched for the site selected now (or nothing
\* yet), and the answer to a fetch for a site no longer selected changes
\* nothing that is shown.
C21_ShownDataIsOfSelectedSite ==
    /\ [](\A name \in SiteQueries :
             Displayed(name) = NoData \/ Displayed(name).site = chosenSite)
    /\ [][\A r \in siteRequests :
             (r \notin siteRequests' /\ r.site # chosenSite) =>
                 \A name \in SiteQueries :
                     siteCache'[queryKey(name, chosenSite')] = Displayed(name)]_vars

\* an answer for s1 arrived after s2 was selected; s2's own data are shown
C21_Witness ==
    /\ lateAnswer
    /\ chosenSite = "s2"
    /\ siteCache[queryKey("site-stock-summary", "s1")].site = "s1"
    /\ Displayed("site-stock-summary").site = "s2"
    /\ Displayed("site-inventory").site = "s2"

-----------------------------------------------------------------------------
(* The delete buttons of the list pages: handleDelete and the delete       *)
(* mutation of Inventory.tsx 183-214, 253-257, 349-356, and of the other   *)
(* six page components                                                     *)

\* the prompt of each page's handleDelete
ConfirmText(pg) ==
    CASE pg \in {"Inventory", "InventoryOld"} ->
            "Are you sure you want to delete this inventory item?"
      [] pg = "Activities" -> "Are you sure you want to delete this activity?"
      [] pg = "MaterialRequests" -> "Are you sure you want to delete this material request?"
      [] pg = "Sites" -> "Are you sure you want to delete this site?"
      [] pg = "Bookings" -> "Are you sure you want to delete this booking?"
      [] pg = "UserSiteAssignments" -> "Are you sure you want to delete this assignment?"

\* the page's delete mutation: its table, the key it invalidates, its toasts
DeleteMutation(pg) == CHOOSE m \in PageMutations(pg) : m.op = "delete"

NoPrompt == [id |-> 0, text |-> "", answer |-> FALSE, flip |-> 0]

\* deleteMutation.isPending: the state of the hook's last mutate() call
deleteIsPending == \E r \in deletes : r.n = deletesSent

DeleteInit ==
    /\ delPage \in AllPages
    /\ storeRows = RowIds
    /\ shownRows = RowIds
    /\ listStale = FALSE
    /\ deletes = {}
    /\ deletesSent = 0
    /\ prompt = NoPrompt
    /\ toast = NoToast

\* the values these variables keep in the specifications that do not use them
DeleteIdle ==
    /\ delPage = "Inventory"
    /\ storeRows = {}
    /\ shownRows = {}
    /\ listStale = FALSE
    /\ deletes = {}
    /\ deletesSent = 0
    /\ prompt = NoPrompt

notDeleteVars == <<scanVars, stockVars, filterVars, authVars, mutVars, fetchVars, pagesVars,
                   concVars, pureVars, switchVars, zoomVars>>

\* the prompt was shown for a row and answered
Prompted(id, confirmed) ==
    prompt' = [id |-> id, text |-> ConfirmText(delPage), answer |-> confirmed,
               flip |-> 1 - prompt.flip]

\* a delete button that stays enabled while a delete is pending
ClickDeleteAlwaysEnabled(id, confirmed) ==
    /\ id \in shownRows
    /\ Prompted(id, confirmed)
    /\ IF confirmed
       THEN /\ deletesSent < MaxWrites
            /\ deletesSent' = deletesSent + 1
            /\ deletes' = deletes \cup {[n |-> deletesSent + 1, id |-> id,
                                         response |-> "awaiting"]}
       ELSE UNCHANGED <<deletes, deletesSent>>
    /\ UNCHANGED <<delPage, storeRows, shownRows, listStale, notDeleteVars, toast>>

\* the delete button of a listed row, disabled while the delete mutation is
\* pending: handleDelete asks window.confirm and, if confirmed, calls
\* mutate(id)
ClickDelete(id, confirmed) ==
    /\ id \in shownRows
    /\ ~deleteIsPending
    /\ Prompted(id, confirmed)
    /\ IF confirmed
       THEN /\ deletesSent < MaxWrites
            /\ deletesSent' = deletesSent + 1
            /\ deletes' = deletes \cup {[n |-> deletesSent + 1, id |-> id,
                                         response |-> "awaiting"]}
       ELSE UNCHANGED <<deletes, deletesSent>>
    /\ UNCHANGED <<delPage, storeRows, shownRows, listStale, notDeleteVars, toast>>

\* the store runs delete().eq('id', id) and answers
StoreDeletes(r, error) ==
    /\ r \in deletes /\ r.response = "awaiting"
    /\ storeRows' = IF error THEN storeRows ELSE storeRows \ {r.id}
    /\ deletes' = (deletes \ {r})
                     \cup {[r EXCEPT !.response = IF error THEN "error" ELSE "ok"]}
    /\ UNCHANGED <<delPage, shownRows, listStale, deletesSent, prompt, notDeleteVars, toast>>

\* the mutationFn returns or throws: onSuccess invalidates the list and
\* shows the success toast, onError shows the destructive toast
DeleteSettles(r) ==
    /\ r \in deletes /\ r.response # "awaiting"
    /\ deletes' = deletes \ {r}
    /\ IF r.response = "ok"
       THEN /\ listStale' = TRUE
            /\ Toast("Success", DeleteMutation(delPage).done, "default")
       ELSE /\ UNCHANGED listStale
            /\ Toast("Error", DeleteMutation(delPage).failed, "destructive")
    /\ UNCHANGED <<delPage, storeRows, shownRows, deletesSent, prompt, notDeleteVars>>

\* the invalidated list query returns the rows of the table
ListRefetched ==
    /\ listStale
    /\ listStale' = FALSE
    /\ shownRows' = storeRows
    /\ UNCHANGED <<delPage, storeRows, deletes, deletesSent, prompt, notDeleteVars, toast>>

DeleteNext ==
    \/ \E id \in RowIds, confirmed \in BOOLEAN : ClickDelete(id, confirmed)
    \/ \E r \in deletes, error \in BOOLEAN : StoreDeletes(r, error)
    \/ \E r \in deletes : DeleteSettles(r)
    \/ ListRefetched

-----------------------------------------------------------------------------
(* Claims about deleting, checked under SpecDelete                         *)

\* C25: on every page a delete request is sent only in the step in which
\* the prompt for that row was confirmed; a declined prompt sends nothing
\* and changes nothing; and no prompt is reached while a delete is pending,
\* so at most one delete is in flight.
C25_DeleteOnlyAfterConfirm ==
    /\ [][\A r \in deletes' :
             r \notin deletes /\ r.response = "awaiting" =>
                 /\ prompt' # prompt
                 /\ prompt'.answer /\ prompt'.id = r.id
                 /\ prompt'.text = ConfirmText(delPage)]_vars
    /\ [][(prompt' # prompt /\ ~prompt'.answer) =>
             UNCHANGED <<delPage, storeRows, shownRows, listStale, deletes, deletesSent,
                         toast>>]_vars
    /\ [][prompt' # prompt => ~deleteIsPending]_vars
    /\ [](Cardinality(deletes) <= 1)

\* a second delete, of the other row, is in flight after the first has
\* removed its row
C25_Witness ==
    /\ deletesSent = 2
    /\ Cardinality(deletes) = 1
    /\ Cardinality(storeRows) = 1
    /\ prompt.answer
    /\ \E r \in deletes : r.id = prompt.id /\ r.id \in storeRows

-----------------------------------------------------------------------------
(* The scan applied to arbitrary responses                                 *)

ScanInit ==
    /\ transactions \in {NullData} \cup {Rows(rs) : rs \in SeqsUpTo(JoinedTxRow, MaxLen)}
    /\ otherResponse \in {Rows(<< >>)} \cup {Rows(<<r>>) : r \in JoinedTxRow}
    /\ stockMap = NewStockMap
    /\ scanResult = NotRun
    /\ scanned = "none"
    /\ firstSummary = NotRun
    /\ runs = 0

\* the scan given any array of rows: joins that are null, or of another item
ScanJoinInit ==
    /\ transactions \in {Rows(rs) : rs \in SeqsUpTo(TxRow, MaxJoinLen)}
    /\ otherResponse = Rows(<< >>)
    /\ stockMap = NewStockMap
    /\ scanResult = NotRun
    /\ scanned = "none"
    /\ firstSummary = NotRun
    /\ runs = 0

\* the queryFn reaches the scan with the response `transactions`
ScanTransactions ==
    /\ RunScan(transactions)
    /\ scanned' = "transactions"
    /\ firstSummary' = IF runs = 0 THEN scanResult' ELSE firstSummary
    /\ runs' = IF runs < 2 THEN runs + 1 ELSE runs
    /\ UNCHANGED <<transactions, otherResponse, stockVars, filterVars, authVars, mutVars, restVars, toast>>

\* the queryFn reaches the scan with the other response
ScanOther ==
    /\ RunScan(otherResponse)
    /\ scanned' = "other"
    /\ UNCHANGED <<transactions, otherResponse, firstSummary, runs, stockVars, filterVars, authVars, mutVars, restVars, toast>>

ScanNext == ScanTransactions \/ ScanOther

-----------------------------------------------------------------------------
(* Claims about the scan, checked under SpecScan                           *)

\* the scan has run on `transactions`, a non-null response
ScannedRows == scanned = "transactions" /\ ~transactions.null

\* index of the first row of `rows` carrying the item_id of row i
FirstIndexOf(rows, i) ==
    CHOOSE j \in 1..i :
        /\ rows[j].item_id = rows[i].item_id
        /\ \A k \in 1..(j - 1) : rows[k].item_id # rows[i].item_id

\* the indices of the rows that are the first of their item_id
FirstSeenIndices(rows) ==
    {i \in 1..Len(rows) : \A j \in 1..(i - 1) : rows[j].item_id # rows[i].item_id}

\* C1: for every item_id occurring in the input, the summary has an entry for
\* it and every entry for it carries the new_stock of the first transaction
\* with that item_id in input order; later occurrences change nothing.
C1_FirstOccurrenceWins ==
    ScannedRows =>
        LET rows == transactions.rows
            data == scanResult.data
        IN  \A i \in 1..Len(rows) :
                /\ \E k \in 1..Len(data) : data[k].item_id = rows[i].item_id
                /\ \A k \in 1..Len(data) :
                      data[k].item_id = rows[i].item_id =>
                          data[k].current_stock = rows[FirstIndexOf(rows, i)].new_stock

\* an item occurs twice with different new_stock and the scan has run
C1_Witness ==
    /\ ScannedRows
    /\ \E i, j \in 1..Len(transactions.rows) :
          /\ i < j
          /\ transactions.rows[i].item_id = transactions.rows[j].item_id
          /\ transactions.rows[i].new_stock # transactions.rows[j].new_stock

\* C3: the summary has exactly one row per distinct item_id of the input, and
\* the rows come in the order in which the item_ids are first seen.
C3_OneRowPerItemFirstSeenOrder ==
    ScannedRows =>
        LET rows == transactions.rows
            data == scanResult.data
            idx  == FirstSeenIndices(rows)
        IN  /\ Len(data) = Cardinality(idx)
            /\ \A i \in idx :
                  data[Cardinality({j \in idx : j <= i})].item_id = rows[i].item_id

\* the input A, B, A of the specification's example shape has been scanned
C3_Witness ==
    /\ ScannedRows
    /\ Len(transactions.rows) = 3
    /\ transactions.rows[1].item_id = transactions.rows[3].item_id
    /\ transactions.rows[1].item_id # transactions.rows[2].item_id
    /\ Len(scanResult.data) = 2

C5_EmptyInputEmptySummary ==
    /\ scanned # "none" => scanResult.status = "success"
    /\ (scanned = "transactions" /\ (transactions.null \/ transactions.rows = << >>))
          => scanResult = [status |-> "success", data |-> << >>]

\* the scan has run on a null response
C5_Witness == scanned = "transactions" /\ transactions.null

\* C16: every summary row is, field by field, what the first transaction
\* of its item_id in the input gives: current_stock its new_stock, item_name,
\* item_category and item_unit those of its joined item (undefined when the
\* join is null), last_updated its created_at.
C16_RowFromOneTransaction ==
    ScannedRows =>
        LET rows == transactions.rows
            data == scanResult.data
        IN  \A k \in 1..Len(data) :
                \E i \in FirstSeenIndices(rows) :
                    /\ rows[i].item_id = data[k].item_id
                    /\ data[k].current_stock = rows[i].new_stock
                    /\ data[k].last_updated = rows[i].created_at
                    /\ IF rows[i].inventory_items.null
                       THEN /\ data[k].item_name = Undefined
                            /\ data[k].item_category = Undefined
                            /\ data[k].item_unit = Undefined
                       ELSE /\ data[k].item_name = rows[i].inventory_items.name
                            /\ data[k].item_category = rows[i].inventory_items.category
                            /\ data[k].item_unit = rows[i].inventory_items.unit

\* an item occurs twice, with different joins, stocks and times
C16_Witness ==
    /\ ScannedRows
    /\ Len(transactions.rows) = 2
    /\ transactions.rows[1].item_id = transactions.rows[2].item_id
    /\ ~transactions.rows[1].inventory_items.null
    /\ transactions.rows[1].inventory_items # transactions.rows[2].inventory_items
    /\ transactions.rows[1].new_stock # transactions.rows[2].new_stock
    /\ transactions.rows[1].created_at # transactions.rows[2].created_at
    /\ scanResult.data[1].item_name = transactions.rows[1].inventory_items.name

-----------------------------------------------------------------------------
(* The image dialog of the Activities page: Activities.tsx 195-199,        *)
(* 324-346, 509-541. Zoom factors are counted in hundredths, the unit the  *)
(* dialog displays them in (Math.round(imageZoom * 100)); every factor the *)
(* handlers produce is a multiple of 0.25 and exact in floating point      *)

\* useState(1) and setImageZoom(1)
ZoomDefault == 100
\* the 0.25 of handleZoomIn and handleZoomOut
ZoomStep == 25
\* the 3 of Math.min(prev + 0.25, 3)
ZoomMax == 300
\* the 0.5 of Math.max(prev - 0.25, 0.5)
ZoomMin == 50

\* Math.min, Math.max
MathMin(a, b) == IF a <= b THEN a ELSE b
MathMax(a, b) == IF a >= b THEN a ELSE b

\* an updater that adds the step without the upper limit
zoomInUnclamped(prev) == prev + ZoomStep

\* the updater of handleZoomIn: prev => Math.min(prev + 0.25, 3)
zoomInUpdater(prev) == MathMin(prev + ZoomStep, ZoomMax)

\* the updater of handleZoomOut: prev => Math.max(prev - 0.25, 0.5)
zoomOutUpdater(prev) == MathMax(prev - ZoomStep, ZoomMin)

\* the image keys a thumbnail is rendered for: `activity.image_key ? ... `
ShownImageKeys == {k \in ImageKeys : ~EmptyKey(k)}

ZoomInit ==
    /\ imageZoom = ZoomDefault
    /\ selectedImage = NullField
    /\ isImageDialogOpen = FALSE
    /\ zoomOp = "none"

\* the values these variables keep in the specifications that do not use them
ZoomIdle == ZoomInit

notZoomVars == <<scanVars, stockVars, filterVars, authVars, mutVars, fetchVars, pagesVars,
                 concVars, pureVars, switchVars, deleteVars>>

\* a thumbnail is clicked
handleImageClick(imageKey_) ==
    /\ selectedImage' = getImageUrl(imageKey_)
    /\ imageZoom' = ZoomDefault
    /\ isImageDialogOpen' = TRUE
    /\ zoomOp' = "open"
    /\ UNCHANGED <<notZoomVars, toast>>

\* the zoom-in Button of the dialog, disabled={imageZoom >= 3}
handleZoomIn ==
    /\ isImageDialogOpen
    /\ ~(imageZoom >= ZoomMax)
    /\ imageZoom' = zoomInUpdater(imageZoom)
    /\ zoomOp' = "in"
    /\ UNCHANGED <<selectedImage, isImageDialogOpen, notZoomVars, toast>>

\* the zoom-out Button of the dialog, disabled={imageZoom <= 0.5}
handleZoomOut ==
    /\ isImageDialogOpen
    /\ ~(imageZoom <= ZoomMin)
    /\ imageZoom' = zoomOutUpdater(imageZoom)
    /\ zoomOp' = "out"
    /\ UNCHANGED <<selectedImage, isImageDialogOpen, notZoomVars, toast>>

\* the Reset Button of the dialog
resetZoom ==
    /\ isImageDialogOpen
    /\ imageZoom' = ZoomDefault
    /\ zoomOp' = "reset"
    /\ UNCHANGED <<selectedImage, isImageDialogOpen, notZoomVars, toast>>

\* the dialog is dismissed: onOpenChange={setIsImageDialogOpen}
CloseImageDialog ==
    /\ isImageDialogOpen
    /\ isImageDialogOpen' = FALSE
    /\ zoomOp' = "close"
    /\ UNCHANGED <<imageZoom, selectedImage, notZoomVars, toast>>

ZoomNext ==
    \/ \E k \in ShownImageKeys : handleImageClick(k)
    \/ handleZoomIn
    \/ handleZoomOut
    \/ resetZoom
    \/ CloseImageDialog

-----------------------------------------------------------------------------
(* Claims about the image zoom, checked under SpecZoom                     *)

\* C27: after any sequence of zoom-in, zoom-out, reset and open-image
\* actions imageZoom is a multiple of 0.25 within [0.5, 3]; zooming in at 3
\* and zooming out at 0.5 leave it unchanged; reset and opening an image set
\* it to 1.
C27_ZoomStaysInQuarterSteps ==
    /\ imageZoom % ZoomStep = 0
    /\ ZoomMin <= imageZoom /\ imageZoom <= ZoomMax
    /\ imageZoom = ZoomMax => zoomInUpdater(imageZoom) = imageZoom
    /\ imageZoom = ZoomMin => zoomOutUpdater(imageZoom) = imageZoom
    /\ zoomOp \in {"reset", "open"} => imageZoom = ZoomDefault

\* an image is open and zooming in has brought the zoom to its upper limit
C27_Witness ==
    /\ zoomOp = "in"
    /\ imageZoom = ZoomMax
    /\ ~selectedImage.null

-----------------------------------------------------------------------------
(* The specifications                                                      *)

InitScan == ScanInit /\ StockIdle /\ FilterIdle /\ AuthIdle /\ MutIdle /\ FetchIdle /\ PagesIdle /\ ConcIdle /\ ImageIdle /\ DateIdle /\ ToastIdle /\ SwitchIdle /\ DeleteIdle /\ ZoomIdle
SpecScan == InitScan /\ [][ScanNext]_vars

InitScanJoin == ScanJoinInit /\ StockIdle /\ FilterIdle /\ AuthIdle /\ MutIdle /\ FetchIdle /\ PagesIdle /\ ConcIdle /\ ImageIdle /\ DateIdle /\ ToastIdle /\ SwitchIdle /\ DeleteIdle /\ ZoomIdle
SpecScanJoin == InitScanJoin /\ [][ScanNext]_vars

InitStock == StockInit /\ ScanIdle /\ FilterIdle /\ AuthIdle /\ MutIdle /\ FetchIdle /\ PagesIdle /\ ConcIdle /\ ImageIdle /\ DateIdle /\ ToastIdle /\ SwitchIdle /\ DeleteIdle /\ ZoomIdle
SpecStock == InitStock /\ [][StockNext]_vars

InitFilter == FilterInit /\ ScanIdle /\ StockIdle /\ AuthIdle /\ MutIdle /\ FetchIdle /\ PagesIdle /\ ConcIdle /\ ImageIdle /\ DateIdle /\ ToastIdle /\ SwitchIdle /\ DeleteIdle /\ ZoomIdle
SpecFilter == InitFilter /\ [][FilterNext]_vars

InitAuth == AuthInit /\ ScanIdle /\ StockIdle /\ FilterIdle /\ MutIdle /\ FetchIdle /\ PagesIdle /\ ConcIdle /\ ImageIdle /\ DateIdle /\ SwitchIdle /\ DeleteIdle /\ ZoomIdle
SpecAuth == InitAuth /\ [][AuthNext]_vars

SpecAuthLive == InitAuth /\ [][AuthNext]_vars /\ AuthFairness

InitFetch == FetchInit /\ ScanIdle /\ StockIdle /\ AuthIdle /\ MutIdle /\ PagesIdle /\ ConcIdle /\ ImageIdle /\ DateIdle /\ ToastIdle /\ SwitchIdle /\ DeleteIdle /\ ZoomIdle
SpecFetch == InitFetch /\ [][FetchNext]_vars

InitMut == MutInit /\ ScanIdle /\ StockIdle /\ FilterIdle /\ AuthIdle /\ FetchIdle /\ PagesIdle /\ ConcIdle /\ ImageIdle /\ DateIdle /\ SwitchIdle /\ DeleteIdle /\ ZoomIdle
SpecMut == InitMut /\ [][MutNext]_vars

InitPages == PagesInit /\ ScanIdle /\ StockIdle /\ FilterIdle /\ AuthIdle /\ MutIdle /\ FetchIdle /\ ConcIdle /\ ImageIdle /\ DateIdle /\ SwitchIdle /\ DeleteIdle /\ ZoomIdle
SpecPages == InitPages /\ [][PagesNext]_vars /\ PagesFairness

InitConc == ConcInit /\ ScanIdle /\ StockIdle /\ FilterIdle /\ AuthIdle /\ MutIdle /\ FetchIdle /\ PagesIdle /\ ImageIdle /\ DateIdle /\ ToastIdle /\ SwitchIdle /\ DeleteIdle /\ ZoomIdle
SpecConc == InitConc /\ [][ConcNext]_vars

InitImage == DateIdle /\ ImageInit /\ ScanIdle /\ StockIdle /\ FilterIdle /\ AuthIdle /\ MutIdle /\ FetchIdle /\ PagesIdle /\ ConcIdle /\ ToastIdle /\ SwitchIdle /\ DeleteIdle /\ ZoomIdle
SpecImage == InitImage /\ [][ImageNext]_vars

InitDate == DateInit /\ ScanIdle /\ StockIdle /\ FilterIdle /\ AuthIdle /\ MutIdle /\ FetchIdle /\ PagesIdle /\ ConcIdle /\ ImageIdle /\ ToastIdle /\ SwitchIdle /\ DeleteIdle /\ ZoomIdle
SpecDate == InitDate /\ [][DateNext]_vars

InitSwitch == SwitchInit /\ ScanIdle /\ StockIdle /\ FilterIdle /\ AuthIdle /\ MutIdle /\ FetchIdle /\ PagesIdle /\ ConcIdle /\ ImageIdle /\ DateIdle /\ ToastIdle /\ DeleteIdle /\ ZoomIdle
SpecSwitch == InitSwitch /\ [][SwitchNext]_vars

InitDelete == DeleteInit /\ ScanIdle /\ StockIdle /\ FilterIdle /\ AuthIdle /\ MutIdle /\ FetchIdle /\ PagesIdle /\ ConcIdle /\ ImageIdle /\ DateIdle /\ SwitchIdle /\ ZoomIdle
SpecDelete == InitDelete /\ [][DeleteNext]_vars

InitZoom == ZoomInit /\ ScanIdle /\ StockIdle /\ FilterIdle /\ AuthIdle /\ MutIdle /\ FetchIdle /\ PagesIdle /\ ConcIdle /\ ImageIdle /\ DateIdle /\ ToastIdle /\ SwitchIdle /\ DeleteIdle
SpecZoom == InitZoom /\ [][ZoomNext]_vars

=============================================================================
